---- MODULE Spec2Model ----
(***************************************************************************)
(* Ledger engine of the agent wallet service: double-entry journal,        *)
(* transfers, holds (create / capture / release), refunds, payment intents *)
(* and deposits, executed by concurrent request handlers over one          *)
(* relational store (read committed, SELECT ... FOR UPDATE row locks on    *)
(* ledger accounts, unique constraints).                                   *)
(*                                                                         *)
(* Amounts are counted in whole units of the ledger's fixed precision.     *)
(* Identifiers of rows are their positions in the tables.                  *)
(***************************************************************************)
EXTENDS Integers, Sequences, FiniteSets, TLC

\* ------------------------------------------------------------------ bounds
MaxAmount == 2
MaxJournal == 4
StartBalance == 3

\* ------------------------------------------------------- fixed population
Wallets == {"sys", "a", "m", "e"}
SystemWallet == "sys"
Kinds == {"available", "held"}
Accounts == Wallets \X Kinds
Txs == {"t1", "t2", "t3"}
Keys == {"ka", "km", "kadm", "kp", "kd", "kh", "ki", "mp"}
IdemKeys == {"k1", "k2", "k3"}
SeedKey == "seed"
NoTx == "none"
None == 0 - 1

KeyWallet(k) ==
    CASE k \in {"ka", "kp", "kd", "kh", "ki"} -> "a"
      [] k \in {"km", "mp"} -> "m"
      [] OTHER -> "sys"

\* wallets.handle
Handle(w) == <<"@", w>>
NoHandle == <<>>
NoWallet == "none"

\* api_keys.limits of the keys that carry limits
PerTxMax(k) == IF k \in {"kp", "mp"} THEN 1 ELSE None
DailyMax(k) == IF k = "kd" THEN 2 ELSE None
AllowedIds(k) == IF k = "ki" THEN {"m"} ELSE {}
AllowedHandles(k) == IF k = "kh" THEN {Handle("m")} ELSE {}
HasAllowlist(k) == k \in {"kh", "ki"}

WalletCurrency(w) == IF w = "e" THEN "EUR" ELSE "USD"

AccountId(acct) ==
    LET WalletIdx(w) == CASE w = "sys" -> 0 [] w = "a" -> 1 [] w = "m" -> 2 [] OTHER -> 3
    IN  2 * WalletIdx(acct[1]) + (IF acct[2] = "held" THEN 1 ELSE 0)

VARIABLES
    wstatus,    \* wallets.status
    journal,    \* journal_entries with their journal_lines, in commit order
    holds,      \* holds table
    captures,   \* captures table
    refunds,    \* refunds table
    intents,    \* payment_intents table
    locks,      \* FOR UPDATE row locks on ledger_accounts: account -> holder
    tx,         \* request handlers: position, request, session snapshot, response
    log,        \* responses of the calls that committed (history)
    scopes,     \* api_keys.scopes: key -> set of scope strings
    buckets,    \* rate_limiter.buckets: key -> token bucket
    listing,    \* a client walking the pages of one wallet's transactions
    retry,      \* an SDK call running under with_retry or RetryableClient
    ledger_accounts, \* ledger_accounts table: committed (wallet, kind) rows
    creating    \* sessions inside get_or_create_ledger_accounts

vars == <<wstatus, journal, holds, captures, refunds, intents, locks, tx, log,
          scopes, buckets, listing, retry, ledger_accounts, creating>>

\* ---------------------------------------------------------------- helpers
Line(acct, dir, amount, cur) ==
    [acct |-> acct, dir |-> dir, amount |-> amount, cur |-> cur]

RECURSIVE SumLines(_, _, _)
SumLines(lines, accts, dir) ==
    IF lines = <<>> THEN 0
    ELSE (IF Head(lines).dir = dir /\ Head(lines).acct \in accts
             THEN Head(lines).amount ELSE 0)
         + SumLines(Tail(lines), accts, dir)

RECURSIVE SumEntries(_, _, _)
SumEntries(j, accts, dir) ==
    IF j = <<>> THEN 0
    ELSE (IF Head(j).status = "posted" THEN SumLines(Head(j).lines, accts, dir) ELSE 0)
         + SumEntries(Tail(j), accts, dir)

\* balance.py get_ledger_account_balance: sum(credits) - sum(debits), posted only
Balance(acct) ==
    SumEntries(journal, {acct}, "credit") - SumEntries(journal, {acct}, "debit")

Available(w) == Balance(<<w, "available">>)
Held(w) == Balance(<<w, "held">>)

\* ledger.py lock_ledger_accounts: ids sorted before the rows are locked
SortedIdsAsGiven(a1, a2) == <<a1, a2>>

\* ledger.py lock_ledger_accounts: sorted(account_ids)
SortedIds(a1, a2) ==
    IF AccountId(a1) <= AccountId(a2) THEN <<a1, a2>> ELSE <<a2, a1>>

CanLockUnlocked(t, acct) == TRUE

\* a row lock can be taken when no other transaction holds it
CanLock(t, acct) == locks[acct] \in {NoTx, t}

\* commit or rollback releases every row lock of the transaction
Unlock(t) == [a \in Accounts |-> IF locks[a] = t THEN NoTx ELSE locks[a]]

\* ledger.py check_idempotency: entry with this (idempotency_key, api key)
CheckIdempotency(idem, k) ==
    {i \in 1..Len(journal) : journal[i].key = idem /\ journal[i].creator = k}

UniqueViolationOff(idem, k) == FALSE

\* uq_journal_entry_idempotency
UniqueViolation(idem, k) == CheckIdempotency(idem, k) # {}

\* db/session.py builds the engine; the module is not in the source tree. The
\* engine of tests/conftest.py and scripts/seed.py is created with the driver's
\* defaults, and the specification prescribes the same level.
IsolationLevel == "read committed"

\* an UPDATE of a row that another transaction changed after this session
\* read it: under read committed it waits for that commit and then writes the
\* session's values; a snapshot level aborts it with a serialization failure
StaleWrite(read, current) == IsolationLevel # "read committed" /\ read # current

\* auth.py check_transaction_limit
CheckTransactionLimit(k, amount) ==
    IF PerTxMax(k) # None /\ amount > PerTxMax(k) THEN "LIMIT_EXCEEDED" ELSE ""

\* auth.py check_daily_limit: posted debits on the key wallet's available
\* account since the start of the day, as visible when the call runs
TodaySpent(k) == SumEntries(journal, {<<KeyWallet(k), "available">>}, "debit")

CheckDailyLimitSpentOnly(k, amount) ==
    IF DailyMax(k) # None /\ TodaySpent(k) > DailyMax(k)
    THEN "LIMIT_EXCEEDED" ELSE ""

CheckDailyLimit(k, amount) ==
    IF DailyMax(k) # None /\ TodaySpent(k) + amount > DailyMax(k)
    THEN "LIMIT_EXCEEDED" ELSE ""

\* auth.py check_counterparty_allowlist
CheckCounterpartyAllowlist(k, w, handle) ==
    IF ~HasAllowlist(k) THEN ""
    ELSE IF w \in AllowedIds(k) THEN ""
    ELSE IF handle # NoHandle /\ handle \in AllowedHandles(k) THEN ""
    ELSE "COUNTERPARTY_NOT_ALLOWED"

\* auth.py enforce_limits: the first failing check decides
EnforceLimits(k, amount, w, handle) ==
    IF CheckTransactionLimit(k, amount) # "" THEN CheckTransactionLimit(k, amount)
    ELSE IF CheckDailyLimit(k, amount) # "" THEN CheckDailyLimit(k, amount)
    ELSE IF w # NoWallet THEN CheckCounterpartyAllowlist(k, w, handle)
    ELSE ""

\* ledger.py create_journal_entry: the only validation is debits = credits
EntryAccepted(lines) ==
    SumLines(lines, Accounts, "debit") = SumLines(lines, Accounts, "credit")

Entry(type, k, idem, lines, ref) ==
    [type |-> type, status |-> "posted", key |-> idem, creator |-> k,
     ref |-> ref, lines |-> lines]

Response(code, id, entry, amount) ==
    [code |-> code, id |-> id, entry |-> entry, amount |-> amount]

IdleTx ==
    [pc |-> "idle", op |-> "none", key |-> "ka", idem |-> "k1", amt |-> 0,
     to |-> "a", obj |-> 0, need |-> <<>>, rem |-> 0, req |-> 0,
     replayed |-> FALSE, res |-> Response("", 0, 0, 0), scope |-> <<>>,
     cur |-> "USD"]

\* ------------------------------------------------------------------ scopes
\* scope strings, character by character
\* ("t:c" stands for transfer:create, "a:..." for the admin scopes, "ab" for a
\* name that merely begins with the letters of "a", "w:r" for wallet:read)
TransferCreate == <<"t", ":", "c">>
WalletRead == <<"w", ":", "r">>
AdminAll == <<"a", ":", "*">>
Administration == <<"a", "b">>

HasScopeColonDropped(held, required) ==
    LET StartsWith(s, prefix) ==
            Len(prefix) <= Len(s) /\ SubSeq(s, 1, Len(prefix)) = prefix
        EndsWith(s, suffix) ==
            Len(suffix) <= Len(s) /\ SubSeq(s, Len(s) - Len(suffix) + 1, Len(s)) = suffix
    IN
    \E scope \in held :
        \/ scope = required
        \/ /\ EndsWith(scope, <<":", "*">>)
           /\ StartsWith(required, SubSeq(scope, 1, Len(scope) - 2))

\* models/api_key.py APIKey.has_scope
HasScope(held, required) ==
    LET StartsWith(s, prefix) ==
            Len(prefix) <= Len(s) /\ SubSeq(s, 1, Len(prefix)) = prefix
        EndsWith(s, suffix) ==
            Len(suffix) <= Len(s) /\ SubSeq(s, Len(s) - Len(suffix) + 1, Len(s)) = suffix
    IN
    \E scope \in held :
        \/ scope = required
        \/ /\ EndsWith(scope, <<":", "*">>)
           /\ StartsWith(required, SubSeq(scope, 1, Len(scope) - 1))

\* scripts/seed.py: the seeded keys carry the scopes of the calls they make
SeedScopes(k) == {WalletRead, TransferCreate}

\* ------------------------------------------------------------ rate limiter
\* core/config.py RATE_LIMIT_RPM, scaled down
RateLimitRpm == 2

\* RateLimiter.__init__: a key's bucket starts full
NewBucket == [tokens |-> RateLimitRpm, last_update |-> 0]

\* RateLimitBucket.consume at time now, time counted in refill periods (one
\* token per unit): the refilled bucket and the verdict
Consume(bucket, now) ==
    LET refilled == bucket.tokens + (now - bucket.last_update)
        filled == IF RateLimitRpm <= refilled THEN RateLimitRpm ELSE refilled
    IN  IF filled >= 1
        THEN [bucket |-> [tokens |-> filled - 1, last_update |-> now], ok |-> TRUE]
        ELSE [bucket |-> [tokens |-> filled, last_update |-> now], ok |-> FALSE]

\* ------------------------------------------------------------------- retry
\* sdk/agent_wallet/retry.py
RETRYABLE_STATUS_CODES == {502, 503, 504}
RETRYABLE_EXCEPTIONS ==
    {"ConnectError", "ConnectTimeout", "ReadTimeout", "WriteTimeout", "PoolTimeout"}

\* what one call of the wrapped function does: it returns, or raises an
\* exception of some class (an HTTPStatusError carries the response status)
Outcome(cls, status) == [cls |-> cls, status |-> status]

NoRetry ==
    [pc |-> "idle", impl |-> "with_retry", max_retries |-> 0, attempt |-> 0,
     calls |-> <<>>, last_exception |-> Outcome("None", 0), sleeps |-> 0,
     result |-> Outcome("None", 0)]

\* -------------------------------------------------------- ledger accounts
\* scripts/seed.py and services/admin.py create a wallet together with its
\* two ledger accounts
SeedAccounts == << <<SystemWallet, "available">>, <<SystemWallet, "held">>,
                   <<"a", "available">>, <<"a", "held">>,
                   <<"m", "available">>, <<"m", "held">>,
                   <<"e", "available">>, <<"e", "held">> >>

NoCreating == [pc |-> "idle", wallet |-> "a", existing |-> {}, added |-> {}, res |-> ""]

\* ----------------------------------------------------------------- listing
\* no walk is in progress
NoListing ==
    [on |-> FALSE, wallet |-> "a", limit |-> 1, cursor |-> <<>>, items |-> <<>>,
     pages |-> 0, has_more |-> TRUE, page |-> <<>>]

\* a finished handler keeps only the request's identity and its response
Done(t, res) ==
    [IdleTx EXCEPT !.pc = "done", !.op = tx[t].op, !.key = tx[t].key,
                   !.idem = tx[t].idem, !.res = res, !.scope = tx[t].scope]

Begin(t, op, k, idem, amt, to, obj) ==
    [IdleTx EXCEPT !.pc = "probe", !.op = op, !.key = k, !.idem = idem,
                   !.amt = amt, !.to = to, !.obj = obj, !.req = amt]

\* the handler raises: the transaction rolls back and the error is returned
Fail(t, code) ==
    /\ tx' = [tx EXCEPT ![t] = Done(t, Response(code, 0, 0, 0))]
    /\ locks' = Unlock(t)
    /\ UNCHANGED <<wstatus, journal, holds, captures, refunds, intents, log>>

\* the handler returns a response rebuilt from committed rows
Replay(t, id, entry, amount) ==
    /\ tx' = [tx EXCEPT ![t] = [Done(t, Response("OK", id, entry, amount))
                                   EXCEPT !.replayed = TRUE]]
    /\ locks' = Unlock(t)
    /\ UNCHANGED <<wstatus, journal, holds, captures, refunds, intents, log>>

Goto(t, pc) ==
    /\ tx' = [tx EXCEPT ![t].pc = pc]
    /\ UNCHANGED <<wstatus, journal, holds, captures, refunds, intents, locks, log>>

\* recipient.py _check_wallet_status
RecipientError(w) ==
    IF w \notin Wallets THEN "RECIPIENT_NOT_FOUND"
    ELSE CASE wstatus[w] = "frozen" -> "WALLET_FROZEN"
           [] wstatus[w] = "closed" -> "WALLET_CLOSED"
           [] OTHER -> ""

Init ==
    /\ wstatus = [w \in Wallets |-> "active"]
    /\ journal = <<>>
    /\ holds = <<>>
    /\ captures = <<>>
    /\ refunds = <<>>
    /\ intents = <<>>
    /\ locks = [a \in Accounts |-> NoTx]
    /\ tx = [t \in Txs |-> IdleTx]
    /\ log = <<>>
    /\ scopes = [k \in Keys |-> SeedScopes(k)]
    /\ buckets = [k \in Keys |-> NewBucket]
    /\ listing = NoListing
    /\ retry = NoRetry
    /\ ledger_accounts = SeedAccounts
    /\ creating = [t \in Txs |-> NoCreating]

\* ------------------------------------------------------------ row locking
\* ledger.py lock_ledger_accounts: take the next row lock, waiting while
\* another transaction holds it
LockStep(t) ==
    /\ tx[t].pc = "lock"
    /\ tx[t].need # <<>>
    /\ CanLock(t, Head(tx[t].need))
    /\ locks' = [locks EXCEPT ![Head(tx[t].need)] = t]
    /\ tx' = [tx EXCEPT ![t].need = Tail(tx[t].need),
                        ![t].pc = IF Tail(tx[t].need) = <<>>
                                  THEN (IF tx[t].op \in {"capture", "release", "deposit"}
                                        THEN "post" ELSE "balance")
                                  ELSE "lock"]
    /\ UNCHANGED <<wstatus, journal, holds, captures, refunds, intents, log>>

\* commit of a posting: entry, lines and dependent rows become visible together;
\* the response carries the new row's id and, where the schema has one, the
\* journal_entry_id
CommitOverLast(t, entry, id, respEntry, amount) ==
    /\ journal' = IF journal = <<>> THEN <<entry>>
                ELSE [journal EXCEPT ![Len(journal)] = entry]
    /\ locks' = Unlock(t)
    /\ tx' = [tx EXCEPT ![t] = Done(t, Response("OK", id, respEntry, amount))]
    /\ log' = Append(log, [op |-> tx[t].op, key |-> tx[t].key, idem |-> tx[t].idem,
                            obj |-> tx[t].obj, amount |-> amount, req |-> tx[t].req,
                            id |-> id, entry |-> respEntry])

\* ledger.py create_journal_entry followed by the caller's db.commit()
Commit(t, entry, id, respEntry, amount) ==
    /\ journal' = Append(journal, entry)
    /\ locks' = Unlock(t)
    /\ tx' = [tx EXCEPT ![t] = Done(t, Response("OK", id, respEntry, amount))]
    /\ log' = Append(log, [op |-> tx[t].op, key |-> tx[t].key, idem |-> tx[t].idem,
                            obj |-> tx[t].obj, amount |-> amount, req |-> tx[t].req,
                            id |-> id, entry |-> respEntry])

\* a handler takes a request when it is not serving one
Ready(t) == tx[t].pc \in {"idle", "done"}

\* the request fails validation before any statement is issued
Reject(t, op, k, idem, code) ==
    /\ tx' = [tx EXCEPT ![t] = [IdleTx EXCEPT !.pc = "done", !.op = op, !.key = k,
                                              !.idem = idem,
                                              !.res = Response(code, 0, 0, 0)]]
    /\ UNCHANGED <<wstatus, journal, holds, captures, refunds, intents, locks, log>>

\* ---------------------------------------------------------------- transfer
StartTransfer(t, k, idem, to, amt, cur) ==
    /\ Ready(t)
    /\ IF amt <= 0
       THEN Reject(t, "transfer", k, idem, "INVALID_AMOUNT")
       ELSE /\ tx' = [tx EXCEPT ![t] = [Begin(t, "transfer", k, idem, amt, to, 0)
                                            EXCEPT !.cur = cur]]
            /\ UNCHANGED <<wstatus, journal, holds, captures, refunds, intents, locks, log>>

\* _build_transfer_response: the first credit line gives the amount
FirstCredit(lines) ==
    LET cs == {i \in 1..Len(lines) : lines[i].dir = "credit"}
    IN  IF cs = {} THEN 0 ELSE CHOOSE i \in cs : \A j \in cs : i <= j

TransferProbe(t) ==
    /\ tx[t].pc = "probe" /\ tx[t].op = "transfer"
    /\ LET hit == CheckIdempotency(tx[t].idem, tx[t].key)
       IN  IF hit # {}
           THEN LET e == CHOOSE i \in hit : TRUE
                    c == FirstCredit(journal[e].lines)
                IN  IF c = 0 THEN Fail(t, "INTERNAL_ERROR")
                    ELSE Replay(t, e, e, journal[e].lines[c].amount)
           ELSE Goto(t, "check")

\* create_transfer with the limits enforced before the wallets are looked at
TransferCheckLimitsFirst(t) ==
    /\ tx[t].pc = "check" /\ tx[t].op = "transfer"
    /\ LET from == KeyWallet(tx[t].key)
           to == tx[t].to
       IN  IF RecipientError(to) # "" THEN Fail(t, RecipientError(to))
           ELSE IF EnforceLimits(tx[t].key, tx[t].amt, to, Handle(to)) # ""
                THEN Fail(t, EnforceLimits(tx[t].key, tx[t].amt, to, Handle(to)))
           ELSE IF from = to THEN Fail(t, "SELF_TRANSFER")
           ELSE IF wstatus[from] # "active" THEN Fail(t, "WALLET_NOT_ACTIVE")
           ELSE IF WalletCurrency(from) # tx[t].cur THEN Fail(t, "CURRENCY_MISMATCH")
           ELSE IF WalletCurrency(to) # tx[t].cur THEN Fail(t, "CURRENCY_MISMATCH")
           ELSE /\ tx' = [tx EXCEPT ![t].pc = "lock",
                              ![t].need = SortedIds(<<from, "available">>, <<to, "available">>)]
                /\ UNCHANGED <<wstatus, journal, holds, captures, refunds, intents, locks, log>>

\* ledger.py create_transfer: from recipient resolution to the limits
TransferCheck(t) ==
    /\ tx[t].pc = "check" /\ tx[t].op = "transfer"
    /\ LET from == KeyWallet(tx[t].key)
           to == tx[t].to
       IN  IF RecipientError(to) # "" THEN Fail(t, RecipientError(to))
           ELSE IF from = to THEN Fail(t, "SELF_TRANSFER")
           ELSE IF wstatus[from] # "active" THEN Fail(t, "WALLET_NOT_ACTIVE")
           ELSE IF WalletCurrency(from) # tx[t].cur THEN Fail(t, "CURRENCY_MISMATCH")
           ELSE IF WalletCurrency(to) # tx[t].cur THEN Fail(t, "CURRENCY_MISMATCH")
           ELSE IF EnforceLimits(tx[t].key, tx[t].amt, to, Handle(to)) # ""
                THEN Fail(t, EnforceLimits(tx[t].key, tx[t].amt, to, Handle(to)))
           ELSE /\ tx' = [tx EXCEPT ![t].pc = "lock",
                              ![t].need = SortedIds(<<from, "available">>, <<to, "available">>)]
                /\ UNCHANGED <<wstatus, journal, holds, captures, refunds, intents, locks, log>>

TransferBalanceUnchecked(t) ==
    /\ tx[t].pc = "balance" /\ tx[t].op = "transfer"
    /\ Goto(t, "post")

TransferBalance(t) ==
    /\ tx[t].pc = "balance" /\ tx[t].op = "transfer"
    /\ IF Available(KeyWallet(tx[t].key)) < tx[t].amt
       THEN Fail(t, "INSUFFICIENT_FUNDS")
       ELSE Goto(t, "post")

TransferPost(t) ==
    /\ tx[t].pc = "post" /\ tx[t].op = "transfer"
    /\ LET from == KeyWallet(tx[t].key)
           cur == WalletCurrency(from)
           lines == <<Line(<<from, "available">>, "debit", tx[t].amt, cur),
                      Line(<<tx[t].to, "available">>, "credit", tx[t].amt, cur)>>
       IN  IF ~EntryAccepted(lines) \/ UniqueViolation(tx[t].idem, tx[t].key)
           THEN Fail(t, "INTERNAL_ERROR")
           ELSE /\ Commit(t, Entry("transfer", tx[t].key, tx[t].idem, lines, 0),
                          Len(journal) + 1, Len(journal) + 1, tx[t].amt)
                /\ UNCHANGED <<wstatus, holds, captures, refunds, intents>>

\* ----------------------------------------------------------------- deposit
StartDeposit(t, k, idem, to, amt) ==
    /\ Ready(t)
    /\ IF amt <= 0
       THEN Reject(t, "deposit", k, idem, "INVALID_AMOUNT")
       ELSE /\ tx' = [tx EXCEPT ![t] = Begin(t, "deposit", k, idem, amt, to, 0)]
            /\ UNCHANGED <<wstatus, journal, holds, captures, refunds, intents, locks, log>>

DepositSourceMerchant == "m"

\* deposits.py get_system_wallet: deposits are drawn from the @system wallet
DepositSource == SystemWallet

\* the replayed response echoes the fields of the request
DepositProbe(t) ==
    /\ tx[t].pc = "probe" /\ tx[t].op = "deposit"
    /\ LET hit == CheckIdempotency(tx[t].idem, tx[t].key)
       IN  IF hit # {}
           THEN LET e == CHOOSE i \in hit : TRUE IN Replay(t, e, e, tx[t].amt)
           ELSE Goto(t, "check")

DepositCheck(t) ==
    /\ tx[t].pc = "check" /\ tx[t].op = "deposit"
    /\ IF wstatus[tx[t].to] # "active" THEN Fail(t, "WALLET_NOT_ACTIVE")
       ELSE IF WalletCurrency(tx[t].to) # WalletCurrency(DepositSource)
            THEN Fail(t, "CURRENCY_MISMATCH")
       ELSE /\ tx' = [tx EXCEPT ![t].pc = "lock",
                          ![t].need = SortedIds(<<DepositSource, "available">>,
                                                <<tx[t].to, "available">>)]
            /\ UNCHANGED <<wstatus, journal, holds, captures, refunds, intents, locks, log>>

DepositPost(t) ==
    /\ tx[t].pc = "post" /\ tx[t].op = "deposit"
    /\ LET cur == WalletCurrency(tx[t].to)
           lines == <<Line(<<DepositSource, "available">>, "debit", tx[t].amt, cur),
                      Line(<<tx[t].to, "available">>, "credit", tx[t].amt, cur)>>
       IN  IF ~EntryAccepted(lines) \/ UniqueViolation(tx[t].idem, tx[t].key)
           THEN Fail(t, "INTERNAL_ERROR")
           ELSE /\ Commit(t, Entry("deposit_external", tx[t].key, tx[t].idem, lines, 0),
                          Len(journal) + 1, Len(journal) + 1, tx[t].amt)
                /\ UNCHANGED <<wstatus, holds, captures, refunds, intents>>

\* ------------------------------------------------------------- create hold
StartHold(t, k, idem, amt) ==
    /\ Ready(t)
    /\ IF amt <= 0
       THEN Reject(t, "hold", k, idem, "INVALID_AMOUNT")
       ELSE /\ tx' = [tx EXCEPT ![t] = Begin(t, "hold", k, idem, amt, KeyWallet(k), 0)]
            /\ UNCHANGED <<wstatus, journal, holds, captures, refunds, intents, locks, log>>

HoldByKeyOtherCreator(idem, k) ==
    {h \in 1..Len(holds) : holds[h].key = idem /\ holds[h].creator # k}

\* holds.py create_hold: probe on the holds table by (idempotency_key, api key)
HoldByKey(idem, k) ==
    {h \in 1..Len(holds) : holds[h].key = idem /\ holds[h].creator = k}

HoldProbe(t) ==
    /\ tx[t].pc = "probe" /\ tx[t].op = "hold"
    /\ LET hit == HoldByKey(tx[t].idem, tx[t].key)
       IN  IF hit # {}
           THEN LET h == CHOOSE i \in hit : TRUE IN Replay(t, h, 0, holds[h].amount)
           ELSE Goto(t, "check")

HoldCheck(t) ==
    /\ tx[t].pc = "check" /\ tx[t].op = "hold"
    /\ LET w == KeyWallet(tx[t].key)
       IN  IF wstatus[w] # "active" THEN Fail(t, "WALLET_NOT_ACTIVE")
           ELSE IF EnforceLimits(tx[t].key, tx[t].amt, NoWallet, NoHandle) # ""
                THEN Fail(t, EnforceLimits(tx[t].key, tx[t].amt, NoWallet, NoHandle))
           ELSE /\ tx' = [tx EXCEPT ![t].pc = "lock",
                              ![t].need = SortedIds(<<w, "available">>, <<w, "held">>)]
                /\ UNCHANGED <<wstatus, journal, holds, captures, refunds, intents, locks, log>>

HoldBalance(t) ==
    /\ tx[t].pc = "balance" /\ tx[t].op = "hold"
    /\ IF Available(KeyWallet(tx[t].key)) < tx[t].amt
       THEN Fail(t, "INSUFFICIENT_FUNDS")
       ELSE Goto(t, "post")

HoldLinesToMerchant(w, amount, cur) ==
    <<Line(<<w, "available">>, "debit", amount, cur),
      Line(<<"m", "held">>, "credit", amount, cur)>>

\* create_hold: debit available, credit held of the caller's wallet
HoldLines(w, amount, cur) ==
    <<Line(<<w, "available">>, "debit", amount, cur),
      Line(<<w, "held">>, "credit", amount, cur)>>

HoldPost(t) ==
    /\ tx[t].pc = "post" /\ tx[t].op = "hold"
    /\ LET w == KeyWallet(tx[t].key)
           cur == WalletCurrency(w)
           lines == HoldLines(w, tx[t].amt, cur)
       IN  IF ~EntryAccepted(lines) \/ UniqueViolation(tx[t].idem, tx[t].key)
           THEN Fail(t, "INTERNAL_ERROR")
           ELSE /\ Commit(t, Entry("hold", tx[t].key, tx[t].idem, lines, 0),
                          Len(holds) + 1, 0, tx[t].amt)
                /\ holds' = Append(holds,
                       [wallet |-> w, amount |-> tx[t].amt, remaining |-> tx[t].amt,
                        status |-> "active", expired |-> FALSE, creator |-> tx[t].key,
                        key |-> tx[t].idem, entry |-> Len(journal) + 1])
                /\ UNCHANGED <<wstatus, captures, refunds, intents>>

\* models/hold.py Hold.is_expired: the clock passes the hold's expires_at
ExpireHold(h) ==
    /\ h \in 1..Len(holds)
    /\ ~holds[h].expired
    /\ holds' = [holds EXCEPT ![h].expired = TRUE]
    /\ UNCHANGED <<wstatus, journal, captures, refunds, intents, locks, tx, log>>

CanCaptureIgnoringExpiry(h) == h.status = "active" /\ h.remaining > 0

\* models/hold.py Hold.can_capture / Hold.can_release
CanCapture(h) == h.status = "active" /\ ~h.expired /\ h.remaining > 0
CanReleaseUnlessExpired(h) == h.status = "active" /\ ~h.expired /\ h.remaining > 0
\* models/hold.py Hold.can_release
CanRelease(h) == h.status = "active" /\ h.remaining > 0

\* ----------------------------------------------------------------- capture
StartCapture(t, k, idem, h, to, amt) ==
    /\ Ready(t)
    /\ tx' = [tx EXCEPT ![t] = Begin(t, "capture", k, idem, amt, to, h)]
    /\ UNCHANGED <<wstatus, journal, holds, captures, refunds, intents, locks, log>>

\* the probe matches on the idempotency key alone; scalar_one_or_none raises
\* when several rows match
CaptureByKey(idem) == {c \in 1..Len(captures) : captures[c].key = idem}

CaptureProbe(t) ==
    /\ tx[t].pc = "probe" /\ tx[t].op = "capture"
    /\ LET hit == CaptureByKey(tx[t].idem)
       IN  IF Cardinality(hit) > 1 THEN Fail(t, "INTERNAL_ERROR")
           ELSE IF hit # {}
           THEN LET c == CHOOSE i \in hit : TRUE
                IN  Replay(t, c, captures[c].entry, captures[c].amount)
           ELSE Goto(t, "check")

\* the hold row is read without a row lock and stays in the session as read
CaptureCheck(t) ==
    /\ tx[t].pc = "check" /\ tx[t].op = "capture"
    /\ IF tx[t].obj \notin 1..Len(holds) THEN Fail(t, "HOLD_NOT_FOUND")
       ELSE LET hold == holds[tx[t].obj]
                amount == IF tx[t].amt = None THEN hold.remaining ELSE tx[t].amt
            IN  IF hold.wallet # KeyWallet(tx[t].key) THEN Fail(t, "FORBIDDEN")
                ELSE IF ~CanCapture(hold)
                     THEN (IF hold.expired THEN Fail(t, "HOLD_EXPIRED")
                           ELSE Fail(t, "HOLD_NOT_CAPTURABLE"))
                ELSE IF amount <= 0 THEN Fail(t, "INVALID_AMOUNT")
                ELSE IF amount > hold.remaining THEN Fail(t, "AMOUNT_EXCEEDS_HOLD")
                ELSE IF RecipientError(tx[t].to) # "" THEN Fail(t, RecipientError(tx[t].to))
                ELSE IF WalletCurrency(tx[t].to) # WalletCurrency(hold.wallet)
                     THEN Fail(t, "CURRENCY_MISMATCH")
                ELSE IF EnforceLimits(tx[t].key, amount, tx[t].to, Handle(tx[t].to)) # ""
                     THEN Fail(t, EnforceLimits(tx[t].key, amount, tx[t].to, Handle(tx[t].to)))
                ELSE /\ tx' = [tx EXCEPT ![t].pc = "lock", ![t].amt = amount,
                                   ![t].rem = hold.remaining,
                                   ![t].need = SortedIds(<<hold.wallet, "held">>,
                                                         <<tx[t].to, "available">>)]
                     /\ UNCHANGED <<wstatus, journal, holds, captures, refunds,
                                    intents, locks, log>>

\* hold.remaining_amount -= amount on the session's copy of the row; the
\* UPDATE writes the columns the session changed
HoldAfterInPlace(h, rem, amount, final) ==
    [holds EXCEPT ![h].remaining = @ - amount,
                  ![h].status = IF rem - amount = 0 THEN final ELSE @]

HoldAfter(h, rem, amount, final) ==
    [holds EXCEPT ![h].remaining = rem - amount,
                  ![h].status = IF rem - amount = 0 THEN final ELSE @]

CapturePost(t) ==
    /\ tx[t].pc = "post" /\ tx[t].op = "capture"
    /\ LET hold == holds[tx[t].obj]
           cur == WalletCurrency(hold.wallet)
           lines == <<Line(<<hold.wallet, "held">>, "debit", tx[t].amt, cur),
                      Line(<<tx[t].to, "available">>, "credit", tx[t].amt, cur)>>
       IN  IF \/ ~EntryAccepted(lines)
              \/ UniqueViolation(tx[t].idem, tx[t].key)
              \/ StaleWrite(tx[t].rem, hold.remaining)
           THEN Fail(t, "INTERNAL_ERROR")
           ELSE /\ Commit(t, Entry("capture", tx[t].key, tx[t].idem, lines, 0),
                          Len(captures) + 1, Len(journal) + 1, tx[t].amt)
                /\ holds' = HoldAfter(tx[t].obj, tx[t].rem, tx[t].amt, "captured")
                /\ captures' = Append(captures,
                       [hold |-> tx[t].obj, to |-> tx[t].to, amount |-> tx[t].amt,
                        refunded |-> 0, key |-> tx[t].idem, entry |-> Len(journal) + 1])
                /\ UNCHANGED <<wstatus, refunds, intents>>

\* ----------------------------------------------------------------- release
StartRelease(t, k, idem, h, amt) ==
    /\ Ready(t)
    /\ tx' = [tx EXCEPT ![t] = Begin(t, "release", k, idem, amt, KeyWallet(k), h)]
    /\ UNCHANGED <<wstatus, journal, holds, captures, refunds, intents, locks, log>>

\* only an entry of type release is replayed; any other entry under the key
\* lets the call go on
ReleaseProbe(t) ==
    /\ tx[t].pc = "probe" /\ tx[t].op = "release"
    /\ LET hit == {e \in CheckIdempotency(tx[t].idem, tx[t].key) :
                      journal[e].type = "release"}
       IN  IF hit # {}
           THEN LET e == CHOOSE i \in hit : TRUE
                IN  Replay(t, e, e, journal[e].lines[FirstCredit(journal[e].lines)].amount)
           ELSE Goto(t, "check")

ReleaseCheck(t) ==
    /\ tx[t].pc = "check" /\ tx[t].op = "release"
    /\ IF tx[t].obj \notin 1..Len(holds) THEN Fail(t, "HOLD_NOT_FOUND")
       ELSE LET hold == holds[tx[t].obj]
                amount == IF tx[t].amt = None THEN hold.remaining ELSE tx[t].amt
            IN  IF hold.wallet # KeyWallet(tx[t].key) THEN Fail(t, "FORBIDDEN")
                ELSE IF ~CanRelease(hold) THEN Fail(t, "HOLD_NOT_RELEASABLE")
                ELSE IF amount <= 0 THEN Fail(t, "INVALID_AMOUNT")
                ELSE IF amount > hold.remaining THEN Fail(t, "AMOUNT_EXCEEDS_HOLD")
                ELSE /\ tx' = [tx EXCEPT ![t].pc = "lock", ![t].amt = amount,
                                   ![t].rem = hold.remaining,
                                   ![t].need = SortedIds(<<hold.wallet, "held">>,
                                                         <<hold.wallet, "available">>)]
                     /\ UNCHANGED <<wstatus, journal, holds, captures, refunds,
                                    intents, locks, log>>

ReleaseLinesReversed(w, amount, cur) ==
    <<Line(<<w, "available">>, "debit", amount, cur),
      Line(<<w, "held">>, "credit", amount, cur)>>

\* release_hold: debit held, credit available of the hold's wallet
ReleaseLines(w, amount, cur) ==
    <<Line(<<w, "held">>, "debit", amount, cur),
      Line(<<w, "available">>, "credit", amount, cur)>>

ReleasePost(t) ==
    /\ tx[t].pc = "post" /\ tx[t].op = "release"
    /\ LET hold == holds[tx[t].obj]
           cur == WalletCurrency(hold.wallet)
           lines == ReleaseLines(hold.wallet, tx[t].amt, cur)
       IN  IF \/ ~EntryAccepted(lines)
              \/ UniqueViolation(tx[t].idem, tx[t].key)
              \/ StaleWrite(tx[t].rem, hold.remaining)
           THEN Fail(t, "INTERNAL_ERROR")
           ELSE /\ Commit(t, Entry("release", tx[t].key, tx[t].idem, lines, 0),
                          Len(journal) + 1, Len(journal) + 1, tx[t].amt)
                /\ holds' = HoldAfter(tx[t].obj, tx[t].rem, tx[t].amt, "released")
                /\ UNCHANGED <<wstatus, captures, refunds, intents>>

\* ------------------------------------------------------------------ refund
StartRefund(t, k, idem, c, amt) ==
    /\ Ready(t)
    /\ tx' = [tx EXCEPT ![t] = Begin(t, "refund", k, idem, amt, KeyWallet(k), c)]
    /\ UNCHANGED <<wstatus, journal, holds, captures, refunds, intents, locks, log>>

RefundByKey(idem) == {r \in 1..Len(refunds) : refunds[r].key = idem}

RefundProbe(t) ==
    /\ tx[t].pc = "probe" /\ tx[t].op = "refund"
    /\ LET hit == RefundByKey(tx[t].idem)
       IN  IF Cardinality(hit) > 1 THEN Fail(t, "INTERNAL_ERROR")
           ELSE IF hit # {}
           THEN LET r == CHOOSE i \in hit : TRUE
                IN  Replay(t, r, refunds[r].entry, refunds[r].amount)
           ELSE Goto(t, "check")

\* models/capture.py Capture.refundable_amount
Refundable(c) == c.amount - c.refunded

\* the capture row is read without a row lock and stays in the session as read
RefundCheck(t) ==
    /\ tx[t].pc = "check" /\ tx[t].op = "refund"
    /\ IF tx[t].obj \notin 1..Len(captures) THEN Fail(t, "CAPTURE_NOT_FOUND")
       ELSE LET capture == captures[tx[t].obj]
                amount == IF tx[t].amt = None THEN Refundable(capture) ELSE tx[t].amt
                payer == holds[capture.hold].wallet
            IN  IF capture.to # KeyWallet(tx[t].key) THEN Fail(t, "FORBIDDEN")
                ELSE IF amount <= 0 THEN Fail(t, "INVALID_AMOUNT")
                ELSE IF amount > Refundable(capture) THEN Fail(t, "AMOUNT_EXCEEDS_REFUNDABLE")
                ELSE IF wstatus[capture.to] # "active" THEN Fail(t, "WALLET_NOT_ACTIVE")
                ELSE /\ tx' = [tx EXCEPT ![t].pc = "lock", ![t].amt = amount,
                                   ![t].rem = capture.refunded, ![t].to = payer,
                                   ![t].need = SortedIds(<<capture.to, "available">>,
                                                         <<payer, "available">>)]
                     /\ UNCHANGED <<wstatus, journal, holds, captures, refunds,
                                    intents, locks, log>>

RefundBalance(t) ==
    /\ tx[t].pc = "balance" /\ tx[t].op = "refund"
    /\ IF Available(captures[tx[t].obj].to) < tx[t].amt
       THEN Fail(t, "INSUFFICIENT_FUNDS")
       ELSE Goto(t, "post")

\* capture.refunded_amount += amount on the session's copy of the row
RefundedAfter(read, amount) == read + amount

RefundLinesToHeld(from, to, amount, cur) ==
    <<Line(<<from, "available">>, "debit", amount, cur),
      Line(<<to, "held">>, "credit", amount, cur)>>

\* create_refund: debit the merchant's available, credit the payer's available
RefundLines(from, to, amount, cur) ==
    <<Line(<<from, "available">>, "debit", amount, cur),
      Line(<<to, "available">>, "credit", amount, cur)>>

RefundPost(t) ==
    /\ tx[t].pc = "post" /\ tx[t].op = "refund"
    /\ LET capture == captures[tx[t].obj]
           cur == WalletCurrency(capture.to)
           lines == RefundLines(capture.to, tx[t].to, tx[t].amt, cur)
       IN  IF \/ ~EntryAccepted(lines)
              \/ UniqueViolation(tx[t].idem, tx[t].key)
              \/ StaleWrite(tx[t].rem, capture.refunded)
           THEN Fail(t, "INTERNAL_ERROR")
           ELSE /\ Commit(t, Entry("refund", tx[t].key, tx[t].idem, lines, tx[t].obj),
                          Len(refunds) + 1, Len(journal) + 1, tx[t].amt)
                /\ captures' = [captures EXCEPT
                                   ![tx[t].obj].refunded = RefundedAfter(tx[t].rem, tx[t].amt)]
                /\ refunds' = Append(refunds,
                       [capture |-> tx[t].obj, amount |-> tx[t].amt,
                        key |-> tx[t].idem, entry |-> Len(journal) + 1])
                /\ UNCHANGED <<wstatus, holds, intents>>

\* ---------------------------------------------------------- payment intent
\* create_payment_intent: no ledger posting, one insert
CreateIntent(k, amt) ==
    /\ amt > 0
    /\ wstatus[KeyWallet(k)] = "active"
    /\ intents' = Append(intents,
           [merchant |-> KeyWallet(k), amount |-> amt, status |-> "requires_payment",
            expired |-> FALSE, payer |-> "", entry |-> 0])
    /\ UNCHANGED <<wstatus, journal, holds, captures, refunds, locks, tx, log>>

StartPay(t, k, idem, i) ==
    /\ Ready(t)
    /\ tx' = [tx EXCEPT ![t] = Begin(t, "pay", k, idem, 0, KeyWallet(k), i)]
    /\ UNCHANGED <<wstatus, journal, holds, captures, refunds, intents, locks, log>>

\* models/payment_intent.py PaymentIntent.is_expired: the clock passes the
\* intent's expires_at
ExpireIntent(i) ==
    /\ i \in 1..Len(intents)
    /\ ~intents[i].expired
    /\ intents' = [intents EXCEPT ![i].expired = TRUE]
    /\ UNCHANGED <<wstatus, journal, holds, captures, refunds, locks, tx, log>>

\* an entry under the key is replayed only when a payment intent points at it
PayProbe(t) ==
    /\ tx[t].pc = "probe" /\ tx[t].op = "pay"
    /\ LET hit == {i \in 1..Len(intents) :
                      intents[i].entry \in CheckIdempotency(tx[t].idem, tx[t].key)}
       IN  IF hit # {}
           THEN LET i == CHOOSE j \in hit : TRUE
                IN  Replay(t, i, intents[i].entry, intents[i].amount)
           ELSE Goto(t, "check")

\* models/payment_intent.py PaymentIntent.can_pay
CanPay(i) == i.status = "requires_payment" /\ ~i.expired

\* the intent row is read without a row lock and stays in the session as read
PayCheck(t) ==
    /\ tx[t].pc = "check" /\ tx[t].op = "pay"
    /\ IF tx[t].obj \notin 1..Len(intents) THEN Fail(t, "PAYMENT_INTENT_NOT_FOUND")
       ELSE LET intent == intents[tx[t].obj]
                payer == KeyWallet(tx[t].key)
            IN  IF ~CanPay(intent)
                THEN (IF intent.expired THEN Fail(t, "PAYMENT_INTENT_EXPIRED")
                      ELSE Fail(t, "PAYMENT_INTENT_NOT_PAYABLE"))
                ELSE IF wstatus[payer] # "active" THEN Fail(t, "WALLET_NOT_ACTIVE")
                ELSE IF WalletCurrency(payer) # WalletCurrency(intent.merchant)
                     THEN Fail(t, "CURRENCY_MISMATCH")
                ELSE IF payer = intent.merchant THEN Fail(t, "SELF_PAYMENT")
                ELSE IF EnforceLimits(tx[t].key, intent.amount, intent.merchant, NoHandle) # ""
                     THEN Fail(t, EnforceLimits(tx[t].key, intent.amount,
                                                intent.merchant, NoHandle))
                ELSE /\ tx' = [tx EXCEPT ![t].pc = "lock", ![t].amt = intent.amount,
                                   ![t].to = intent.merchant,
                                   ![t].need = SortedIds(<<payer, "available">>,
                                                         <<intent.merchant, "available">>)]
                     /\ UNCHANGED <<wstatus, journal, holds, captures, refunds,
                                    intents, locks, log>>

PayBalance(t) ==
    /\ tx[t].pc = "balance" /\ tx[t].op = "pay"
    /\ IF Available(KeyWallet(tx[t].key)) < tx[t].amt
       THEN Fail(t, "INSUFFICIENT_FUNDS")
       ELSE Goto(t, "post")

PayPost(t) ==
    /\ tx[t].pc = "post" /\ tx[t].op = "pay"
    /\ LET payer == KeyWallet(tx[t].key)
           cur == WalletCurrency(payer)
           lines == <<Line(<<payer, "available">>, "debit", tx[t].amt, cur),
                      Line(<<tx[t].to, "available">>, "credit", tx[t].amt, cur)>>
       IN  IF \/ ~EntryAccepted(lines)
              \/ UniqueViolation(tx[t].idem, tx[t].key)
              \/ StaleWrite("requires_payment", intents[tx[t].obj].status)
           THEN Fail(t, "INTERNAL_ERROR")
           ELSE /\ Commit(t, Entry("transfer", tx[t].key, tx[t].idem, lines, tx[t].obj),
                          tx[t].obj, Len(journal) + 1, tx[t].amt)
                /\ intents' = [intents EXCEPT ![tx[t].obj].status = "paid",
                                              ![tx[t].obj].payer = payer,
                                              ![tx[t].obj].entry = Len(journal) + 1]
                /\ UNCHANGED <<wstatus, holds, captures, refunds>>

\* ------------------------------------------------------------ specification
Amounts == 1..MaxAmount
OptAmounts == Amounts \cup {None}
Handlers == {"t1", "t2"}

\* requests are admitted while the journal has room for every posting in flight
Room(cap) ==
    Len(journal) + Cardinality({u \in Txs : tx[u].pc \notin {"idle", "done"}}) < cap

\* scripts/seed.py: the system wallet, @alice and the merchant exist and
\* @alice holds the initial deposit
InitTables(accounts) ==
    /\ wstatus = [w \in Wallets |-> "active"]
    /\ journal = <<Entry("deposit_external", "kadm", SeedKey,
                         <<Line(<<SystemWallet, "available">>, "debit", StartBalance, "USD"),
                           Line(<<"a", "available">>, "credit", StartBalance, "USD")>>, 0)>>
    /\ holds = <<>>
    /\ captures = <<>>
    /\ refunds = <<>>
    /\ intents = <<>>
    /\ locks = [a \in Accounts |-> NoTx]
    /\ tx = [t \in Txs |-> IdleTx]
    /\ log = <<>>
    /\ scopes = [k \in Keys |-> SeedScopes(k)]
    /\ buckets = [k \in Keys |-> NewBucket]
    /\ listing = NoListing
    /\ retry = NoRetry
    /\ ledger_accounts = accounts
    /\ creating = [t \in Txs |-> NoCreating]

\* scripts/seed.py: every seeded wallet has its two ledger accounts
InitSeed == InitTables(SeedAccounts)

TransferStep(t) ==
    TransferProbe(t) \/ TransferCheck(t) \/ TransferBalance(t) \/ TransferPost(t)
DepositStep(t) == DepositProbe(t) \/ DepositCheck(t) \/ DepositPost(t)
HoldStep(t) == HoldProbe(t) \/ HoldCheck(t) \/ HoldBalance(t) \/ HoldPost(t)
CaptureStep(t) == CaptureProbe(t) \/ CaptureCheck(t) \/ CapturePost(t)
ReleaseStep(t) == ReleaseProbe(t) \/ ReleaseCheck(t) \/ ReleasePost(t)
RefundStep(t) == RefundProbe(t) \/ RefundCheck(t) \/ RefundBalance(t) \/ RefundPost(t)
PayStep(t) == PayProbe(t) \/ PayCheck(t) \/ PayBalance(t) \/ PayPost(t)

\* ---- every operation, two handlers, from the empty ledger
Request(t) ==
    /\ Room(MaxJournal)
    /\ \/ StartDeposit(t, "kadm", "k3", "a", MaxAmount)
       \/ StartRefund(t, "km", "k1", 1, None)
       \/ StartPay(t, "ka", "k3", 1)
       \/ \E idem \in {"k1", "k2"} :
             \/ StartTransfer(t, "ka", idem, "m", 1, "USD")
             \/ StartHold(t, "ka", idem, MaxAmount)
             \/ \E amt \in {1, None} : StartCapture(t, "ka", idem, 1, "m", amt)
             \/ StartRelease(t, "ka", idem, 1, None)

Next ==
    /\ UNCHANGED <<scopes, buckets, listing, retry, ledger_accounts, creating>>
    /\ \/ \E t \in Handlers : Request(t)
       \/ \E t \in Handlers :
             \/ LockStep(t)
             \/ TransferStep(t) \/ DepositStep(t) \/ HoldStep(t) \/ CaptureStep(t)
             \/ ReleaseStep(t) \/ RefundStep(t) \/ PayStep(t)
       \/ Len(intents) < 1 /\ CreateIntent("km", 1)

Spec == Init /\ [][Next]_vars

\* ---- concurrent debits of one funded wallet: transfers and hold creations,
\* each handler under its own idempotency key
IdemOf(t) == CASE t = "t1" -> "k1" [] t = "t2" -> "k2" [] OTHER -> "k3"

SpecDebit ==
    /\ InitSeed
    /\ [][
            /\ UNCHANGED <<scopes, buckets, listing, retry, ledger_accounts, creating>>
            /\ \/ \E t \in Txs, amt \in Amounts :
                     /\ Room(MaxJournal)
                     /\ StartTransfer(t, "ka", IdemOf(t), "m", amt, "USD") \/ StartHold(t, "ka", IdemOf(t), amt)
               \/ \E t \in Txs : LockStep(t) \/ TransferStep(t) \/ HoldStep(t)
       ]_vars

\* ---- captures and releases against the holds of the funded wallet
\* (the hold is created under its own key: a capture or release under the
\* hold's key is stopped by uq_journal_entry_idempotency)
SpecHold ==
    /\ InitSeed
    /\ [][
            /\ UNCHANGED <<scopes, buckets, listing, retry, ledger_accounts, creating>>
            /\ \/ \E t \in Handlers, idem \in {"k1", "k2"} :
                     /\ Room(MaxJournal)
                     /\ \/ \E amt \in Amounts : StartHold(t, "ka", "k3", amt)
                        \/ \E amt \in OptAmounts : StartCapture(t, "ka", idem, 1, "m", amt)
                        \/ \E amt \in OptAmounts : StartRelease(t, "ka", idem, 1, amt)
               \/ \E t \in Handlers : LockStep(t) \/ HoldStep(t) \/ CaptureStep(t) \/ ReleaseStep(t)
       ]_vars

\* ---- refunds against a capture
SpecRefund ==
    /\ InitSeed
    /\ [][
            /\ UNCHANGED <<scopes, buckets, listing, retry, ledger_accounts, creating>>
            /\ \/ \E t \in Handlers :
                     /\ Room(MaxJournal + 1)
                     /\ \/ Len(holds) = 0 /\ StartHold(t, "ka", "k1", MaxAmount)
                        \/ Len(captures) = 0 /\ StartCapture(t, "ka", "k2", 1, "m", None)
                        \/ \E idem \in {"k1", "k2"}, amt \in OptAmounts : StartRefund(t, "km", idem, 1, amt)
               \/ \E t \in Handlers : LockStep(t) \/ HoldStep(t) \/ CaptureStep(t) \/ RefundStep(t)
       ]_vars

\* ---- payments of one intent
SpecPay ==
    /\ InitSeed
    /\ [][
            /\ UNCHANGED <<scopes, buckets, listing, retry, ledger_accounts, creating>>
            /\ \/ Len(intents) < 1 /\ \E amt \in Amounts : CreateIntent("km", amt)
               \/ \E t \in Handlers, idem \in {"k1", "k2"}, k \in {"ka", "km"} :
                     Room(MaxJournal) /\ StartPay(t, k, idem, 1)
               \/ \E t \in Handlers : LockStep(t) \/ PayStep(t)
       ]_vars

\* ---- one client at a time: a hold, its capture, release and refund
SpecSeq ==
    /\ InitSeed
    /\ [][
            /\ UNCHANGED <<scopes, buckets, listing, retry, ledger_accounts, creating>>
            /\ \/ /\ Room(MaxJournal)
                  /\ \/ \E amt \in Amounts : StartHold("t1", "ka", "k1", amt)
                     \/ \E amt \in OptAmounts : StartCapture("t1", "ka", "k2", 1, "m", amt)
                     \/ \E amt \in OptAmounts : StartRelease("t1", "ka", "k3", 1, amt)
                     \/ \E amt \in OptAmounts : StartRefund("t1", "km", "k1", 1, amt)
               \/ LockStep("t1") \/ HoldStep("t1") \/ CaptureStep("t1")
               \/ ReleaseStep("t1") \/ RefundStep("t1")
       ]_vars

\* ---- captures of a hold around its expiry
SpecExpire ==
    /\ InitSeed
    /\ [][
            /\ UNCHANGED <<scopes, buckets, listing, retry, ledger_accounts, creating>>
            /\ \/ \E t \in Handlers, idem \in {"k1", "k2"} :
                     /\ Room(MaxJournal)
                     /\ \/ \E amt \in Amounts : StartHold(t, "ka", "k3", amt)
                        \/ \E amt \in OptAmounts : StartCapture(t, "ka", idem, 1, "m", amt)
               \/ \E t \in Handlers : LockStep(t) \/ HoldStep(t) \/ CaptureStep(t)
               \/ ExpireHold(1)
       ]_vars

\* ---- calls under keys that carry a per-transaction cap
SpecPerTx ==
    /\ InitSeed
    /\ [][
            /\ UNCHANGED <<scopes, buckets, listing, retry, ledger_accounts, creating>>
            /\ \/ /\ Room(MaxJournal)
                  /\ \/ \E amt \in Amounts : StartHold("t1", "ka", "k3", amt)
                     \/ \E idem \in IdemKeys, amt \in Amounts :
                           \/ StartTransfer("t1", "kp", idem, "m", amt, "USD")
                           \/ StartHold("t1", "kp", idem, amt)
                     \/ \E k \in {"ka", "kp"}, idem \in {"k1", "k2"}, amt \in OptAmounts :
                           StartCapture("t1", k, idem, 1, "m", amt)
                     \/ \E idem \in {"k1", "k2"} : StartPay("t1", "kp", idem, 1)
                     \/ \E amt \in OptAmounts : StartRefund("t1", "mp", "k1", 1, amt)
               \/ Len(intents) < 1 /\ \E amt \in Amounts : CreateIntent("km", amt)
               \/ LockStep("t1") \/ TransferStep("t1") \/ HoldStep("t1") \/ CaptureStep("t1")
               \/ PayStep("t1") \/ RefundStep("t1")
       ]_vars

\* ---- concurrent debits under a key that carries a daily cap
SpecDaily ==
    /\ InitSeed
    /\ [][
            /\ UNCHANGED <<scopes, buckets, listing, retry, ledger_accounts, creating>>
            /\ \/ \E t \in Handlers, amt \in Amounts :
                     /\ Room(MaxJournal)
                     /\ \/ StartTransfer(t, "kd", IdemOf(t), "m", amt, "USD")
                        \/ StartHold(t, "kd", IdemOf(t), amt)
                        \/ StartCapture(t, "kd", IdemOf(t), 1, "m", amt)
               \/ \E t \in Handlers :
                     LockStep(t) \/ TransferStep(t) \/ HoldStep(t) \/ CaptureStep(t)
       ]_vars

\* ---- calls under keys that carry a counterparty allowlist
SpecAllow ==
    /\ InitSeed
    /\ [][
            /\ UNCHANGED <<scopes, buckets, listing, retry, ledger_accounts, creating>>
            /\ \/ /\ Room(MaxJournal)
                  /\ \/ StartHold("t1", "ka", "k3", MaxAmount)
                     \/ \E k \in {"kh", "ki"}, to \in {"m", SystemWallet} :
                           \/ StartTransfer("t1", k, "k1", to, 1, "USD")
                           \/ StartCapture("t1", k, "k2", 1, to, 1)
                     \/ \E k \in {"kh", "ki"}, i \in {1, 2} : StartPay("t1", k, "k3", i)
               \/ Len(intents) < 2 /\ \E k \in {"km", "kadm"} : CreateIntent(k, 1)
               \/ LockStep("t1") \/ TransferStep("t1") \/ HoldStep("t1") \/ CaptureStep("t1")
               \/ PayStep("t1")
       ]_vars

\* ---- direct calls of the posting primitive
\* ledger.py create_journal_entry called with arbitrary lines and committed:
\* ValueError when unbalanced, IntegrityError on a duplicate key
CreateJournalEntry(type, k, idem, lines) ==
    /\ Len(journal) < MaxJournal
    /\ EntryAccepted(lines)
    /\ ~UniqueViolation(idem, k)
    /\ journal' = Append(journal, Entry(type, k, idem, lines, 0))
    /\ UNCHANGED <<wstatus, holds, captures, refunds, intents, locks, tx, log>>

SpecPrimitive ==
    /\ Init
    /\ [][
            /\ UNCHANGED <<scopes, buckets, listing, retry, ledger_accounts, creating>>
            /\ \E k \in {"ka", "kadm"}, idem \in IdemKeys, lines \in
                      { <<>>,
                        <<Line(<<"a", "available">>, "debit", 1, "USD"),
                          Line(<<"m", "available">>, "credit", 1, "USD")>>,
                        <<Line(<<"a", "available">>, "debit", 0, "USD"),
                          Line(<<"m", "available">>, "credit", 0, "USD")>>,
                        <<Line(<<"a", "available">>, "debit", 1, "USD"),
                          Line(<<"m", "available">>, "credit", 1, "EUR")>>,
                        <<Line(<<"a", "available">>, "debit", 2, "USD"),
                          Line(<<"m", "available">>, "credit", 1, "USD")>>,
                        <<Line(<<"a", "available">>, "debit", 1, "USD")>> } :
                   CreateJournalEntry("adjustment", k, idem, lines)
       ]_vars

\* middleware/auth.py require_scope, then the endpoint's service call
RequireScope(t, k, required, idem, to, amt) ==
    /\ Ready(t)
    /\ IF ~HasScope(scopes[k], required)
       THEN tx' = [tx EXCEPT ![t] =
                      [IdleTx EXCEPT !.pc = "done", !.op = "transfer", !.key = k,
                                     !.idem = idem, !.scope = required,
                                     !.res = Response("FORBIDDEN_SCOPE", 0, 0, 0)]]
       ELSE tx' = [tx EXCEPT ![t] =
                      [Begin(t, "transfer", k, idem, amt, to, 0) EXCEPT !.scope = required]]
    /\ UNCHANGED <<wstatus, journal, holds, captures, refunds, intents, locks, log>>

InitScope ==
    /\ wstatus = [w \in Wallets |-> "active"]
    /\ journal = <<Entry("deposit_external", "kadm", SeedKey,
                         <<Line(<<SystemWallet, "available">>, "debit", StartBalance, "USD"),
                           Line(<<"a", "available">>, "credit", StartBalance, "USD")>>, 0)>>
    /\ holds = <<>>
    /\ captures = <<>>
    /\ refunds = <<>>
    /\ intents = <<>>
    /\ locks = [a \in Accounts |-> NoTx]
    /\ tx = [t \in Txs |-> IdleTx]
    /\ log = <<>>
    \* the scope lists a key may hold: exact scopes, ":*" wildcards, a bare "a*"
    /\ \E held \in SUBSET {TransferCreate, WalletRead, AdminAll, <<"a", ":", "x">>,
                           <<"t", ":", "*">>, <<"a", "*">>} :
          scopes = [k \in Keys |-> IF k = "ka" THEN held ELSE SeedScopes(k)]
    /\ buckets = [k \in Keys |-> NewBucket]
    /\ listing = NoListing
    /\ retry = NoRetry
    /\ ledger_accounts = SeedAccounts
    /\ creating = [t \in Txs |-> NoCreating]

SpecScope ==
    /\ InitScope
    /\ [][
            /\ UNCHANGED <<scopes, buckets, listing, retry, ledger_accounts, creating>>
            /\ \/ /\ Room(MaxJournal)
                  \* the scopes an endpoint may require
                  /\ \E required \in {TransferCreate, <<"a", ":", "x">>,
                                       <<"a", ":", "x", ":", "y">>, Administration},
                        idem \in {"k1", "k2"} :
                        RequireScope("t1", "ka", required, idem, "m", 1)
               \/ LockStep("t1") \/ TransferStep("t1")
       ]_vars

\* ---- one client at a time, while an administrator freezes and unfreezes
\* wallets between the calls
\* services/admin.py admin_freeze_wallet
FreezeWallet(w, freeze) ==
    /\ wstatus[w] # "closed"
    /\ wstatus' = [wstatus EXCEPT ![w] = IF freeze THEN "frozen" ELSE "active"]
    /\ UNCHANGED <<journal, holds, captures, refunds, intents, locks, tx, log>>

SpecFreeze ==
    /\ InitSeed
    /\ [][
            /\ UNCHANGED <<scopes, buckets, listing, retry, ledger_accounts, creating>>
            /\ \/ /\ Room(MaxJournal)
                  /\ \/ StartHold("t1", "ka", "k3", MaxAmount)
                     \/ \E idem \in {"k1", "k2"} :
                           \/ StartTransfer("t1", "ka", idem, "m", 1, "USD")
                           \/ StartCapture("t1", "ka", idem, 1, "m", 1)
               \/ Ready("t1") /\ \E w \in {"a", "m"}, freeze \in BOOLEAN : FreezeWallet(w, freeze)
               \/ LockStep("t1") \/ TransferStep("t1") \/ HoldStep("t1") \/ CaptureStep("t1")
       ]_vars

\* ---- refunds requested by the merchant and by the payer of a capture
SpecStranger ==
    /\ InitSeed
    /\ [][
            /\ UNCHANGED <<scopes, buckets, listing, retry, ledger_accounts, creating>>
            /\ \/ /\ Room(MaxJournal + 1)
                  /\ \/ Len(holds) = 0 /\ StartHold("t1", "ka", "k3", MaxAmount)
                     \/ Len(captures) = 0 /\ StartCapture("t1", "ka", "k1", 1, "m", None)
                     \/ \E k \in {"km", "ka"}, idem \in {"k1", "k2"}, amt \in OptAmounts :
                           StartRefund("t1", k, idem, 1, amt)
               \/ LockStep("t1") \/ HoldStep("t1") \/ CaptureStep("t1") \/ RefundStep("t1")
       ]_vars

\* ---- deposits by the administrator, one call at a time
SpecDeposit ==
    /\ InitSeed
    /\ [][
            /\ UNCHANGED <<scopes, buckets, listing, retry, ledger_accounts, creating>>
            /\ \/ /\ Room(MaxJournal)
                  /\ \E idem \in {"k1", "k2"}, to \in {"a", "m"}, amt \in Amounts :
                        StartDeposit("t1", "kadm", idem, to, amt)
               \/ LockStep("t1") \/ DepositStep("t1")
       ]_vars

\* ---- one client at a time whose calls may be cancelled before they commit
CancelAfterFlush(t) ==
    /\ tx[t].pc \notin {"idle", "done"}
    /\ tx' = [tx EXCEPT ![t] = Done(t, Response("CANCELLED", 0, 0, 0))]
    /\ locks' = Unlock(t)
    /\ journal' = IF tx[t].pc = "post"
                  THEN Append(journal, Entry("adjustment", tx[t].key, tx[t].idem, <<>>, 0))
                  ELSE journal
    /\ UNCHANGED <<wstatus, holds, captures, refunds, intents, log>>

\* the client disconnects or the deadline passes while the handler is in
\* flight: the session is closed without commit and its transaction rolls back
Cancel(t) ==
    /\ tx[t].pc \notin {"idle", "done"}
    /\ Fail(t, "CANCELLED")

SpecAtomic ==
    /\ InitSeed
    /\ [][
            /\ UNCHANGED <<scopes, buckets, listing, retry, ledger_accounts, creating>>
            /\ \/ /\ Room(MaxJournal + 1)
                  /\ \/ \E amt \in Amounts : StartHold("t1", "ka", "k1", amt)
                     \/ \E amt \in OptAmounts : StartCapture("t1", "ka", "k2", 1, "m", amt)
                     \/ \E amt \in OptAmounts : StartRelease("t1", "ka", "k3", 1, amt)
                     \/ \E amt \in OptAmounts : StartRefund("t1", "km", "k1", 1, amt)
                     \/ StartPay("t1", "kp", "k1", 1)
                     \/ \E amt \in Amounts : StartTransfer("t1", "kd", "k1", "m", amt, "USD")
               \/ Len(intents) < 1 /\ CreateIntent("km", 1)
               \/ Cancel("t1")
               \/ LockStep("t1") \/ HoldStep("t1") \/ CaptureStep("t1") \/ ReleaseStep("t1")
               \/ RefundStep("t1") \/ PayStep("t1") \/ TransferStep("t1")
       ]_vars

\* ---- transfers in both directions between two wallets and holds on one of
\* them, under a scheduler that lets every handler run and serves lock waiters
LiveStep(t) ==
    /\ TransferStep(t) \/ HoldStep(t)
    /\ UNCHANGED <<scopes, buckets, listing, retry, ledger_accounts, creating>>

LiveLock(t) ==
    /\ LockStep(t)
    /\ UNCHANGED <<scopes, buckets, listing, retry, ledger_accounts, creating>>

SpecLive ==
    /\ InitSeed
    /\ [][
            \/ /\ UNCHANGED <<scopes, buckets, listing, retry, ledger_accounts, creating>>
               /\ Room(MaxJournal)
               /\ \E t \in Handlers :
                     \/ StartTransfer(t, "ka", IdemOf(t), "m", 1, "USD")
                     \/ StartTransfer(t, "km", IdemOf(t), "a", 1, "USD")
                     \/ StartHold(t, "ka", IdemOf(t), 1)
            \/ \E t \in Handlers : LiveStep(t) \/ LiveLock(t)
       ]_vars
    /\ \A t \in Handlers : WF_vars(LiveStep(t)) /\ SF_vars(LiveLock(t))

\* ---- a client walks the pages of a wallet's transactions
\* journal_entries.created_at is the clock at the entry's transaction; entries
\* of the same tick share it
CreatedAt(i) == i \div 2

\* journal_entries.id is a random uuid: its order is unrelated to commit order
EntryUuid(i) == (3 * i) % 7

\* the pieces of a cursor text: a colon, or <<"#", n>>, a run of other
\* characters that spells the number n
Colon == <<":", 0>>

\* datetime.isoformat: the text of a timestamp contains colons of its own
IsoFormat(ts) == <<<<"#", ts>>, Colon, <<"#", 0>>>>

\* datetime.fromisoformat
FromIsoFormat(text) == text[1][2]

\* the cursor text before base64: "<created_at iso>:<entry id>"
CursorOf(i) == IsoFormat(CreatedAt(i)) \o <<Colon, <<"#", EntryUuid(i)>>>>

\* str.rsplit(":", 1)
RSplit(text) ==
    LET p == CHOOSE i \in 1..Len(text) :
                 text[i] = Colon /\ \A j \in (i + 1)..Len(text) : text[j] # Colon
    IN  <<SubSeq(text, 1, p - 1), SubSeq(text, p + 1, Len(text))>>

\* the joined (line, entry) rows whose ledger account belongs to the wallet
WalletRows(w) ==
    {r \in (1..Len(journal)) \X (1..2) :
        /\ r[2] <= Len(journal[r[1]].lines)
        /\ journal[r[1]].lines[r[2]].acct[1] = w}

AfterCursorByTimeOnly(rows, cursor) ==
    IF cursor = <<>> THEN rows
    ELSE LET cursor_dt == FromIsoFormat(RSplit(cursor)[1])
         IN  {r \in rows : CreatedAt(r[1]) < cursor_dt}

\* the cursor filter: rows strictly after the cursor's entry in listing order
AfterCursor(rows, cursor) ==
    IF cursor = <<>> THEN rows
    ELSE LET cursor_dt == FromIsoFormat(RSplit(cursor)[1])
             cursor_id == RSplit(cursor)[2][1][2]
         IN  {r \in rows : \/ CreatedAt(r[1]) < cursor_dt
                           \/ /\ CreatedAt(r[1]) = cursor_dt
                              /\ EntryUuid(r[1]) < cursor_id}

\* order_by(created_at desc, id desc); the lines of one entry stay together
RowFirst(r, q) ==
    \/ CreatedAt(r[1]) > CreatedAt(q[1])
    \/ CreatedAt(r[1]) = CreatedAt(q[1]) /\ EntryUuid(r[1]) > EntryUuid(q[1])
    \/ r[1] = q[1] /\ r[2] <= q[2]

RECURSIVE OrderRows(_)
OrderRows(rows) ==
    IF rows = {} THEN <<>>
    ELSE LET r == CHOOSE x \in rows : \A y \in rows : RowFirst(x, y)
         IN  <<r>> \o OrderRows(rows \ {r})

\* query.limit(n) and rows[:n]
Take(rows, n) == SubSeq(rows, 1, IF n <= Len(rows) THEN n ELSE Len(rows))

\* seen_entries: one item per entry, at its first row
RECURSIVE OneItemPerEntry(_, _)
OneItemPerEntry(rows, seen) ==
    IF rows = <<>> THEN <<>>
    ELSE IF Head(rows)[1] \in seen THEN OneItemPerEntry(Tail(rows), seen)
    ELSE <<Head(rows)[1]>> \o OneItemPerEntry(Tail(rows), seen \cup {Head(rows)[1]})

\* services/transactions.py list_wallet_transactions
ListWalletTransactions(w, cursor, limit) ==
    LET rows == Take(OrderRows(AfterCursor(WalletRows(w), cursor)), limit + 1)
        has_more == Len(rows) > limit
        items == OneItemPerEntry(IF has_more THEN Take(rows, limit) ELSE rows, {})
    IN  [items |-> items, has_more |-> has_more,
         cursor |-> IF has_more /\ items # <<>>
                    THEN CursorOf(items[Len(items)]) ELSE <<>>]

\* the client asks for the first page
StartListing(w, limit) ==
    /\ listing' = [NoListing EXCEPT !.on = TRUE, !.wallet = w, !.limit = limit]
    /\ UNCHANGED <<wstatus, journal, holds, captures, refunds, intents, locks, tx, log,
                   scopes, buckets, retry, ledger_accounts, creating>>

\* GET /wallets/me/transactions with the cursor of the previous page
ListPage ==
    /\ listing.on /\ listing.has_more
    /\ LET r == ListWalletTransactions(listing.wallet, listing.cursor, listing.limit)
       IN  listing' = [listing EXCEPT !.cursor = r.cursor, !.has_more = r.has_more,
                                      !.items = @ \o r.items, !.page = r.items,
                                      !.pages = @ + 1]
    /\ UNCHANGED <<wstatus, journal, holds, captures, refunds, intents, locks, tx, log,
                   scopes, buckets, retry, ledger_accounts, creating>>

\* postings stop when the walk begins
SpecList ==
    /\ InitSeed
    /\ [][
            \/ /\ UNCHANGED <<scopes, buckets, listing, retry, ledger_accounts, creating>>
               /\ ~listing.on
               /\ \/ /\ Room(MaxJournal)
                     /\ \/ StartHold("t1", "ka", "k3", 1)
                        \/ \E idem \in {"k1", "k2"} :
                              \/ StartTransfer("t1", "ka", idem, "m", 1, "USD")
                              \/ StartCapture("t1", "ka", idem, 1, "m", 1)
                  \/ LockStep("t1") \/ TransferStep("t1") \/ HoldStep("t1") \/ CaptureStep("t1")
            \/ /\ ~listing.on /\ Ready("t1")
               /\ \E w \in {"a", "m"}, limit \in 1..3 : StartListing(w, limit)
            \/ ListPage
       ]_vars

\* ---- one transfer at a time, of any amount and currency, to any recipient,
\* under keys with and without limits, while wallets are frozen and unfrozen
SpecOrder ==
    /\ InitSeed
    /\ [][
            /\ UNCHANGED <<scopes, buckets, listing, retry, ledger_accounts, creating>>
            /\ \/ /\ Room(MaxJournal)
                  /\ \E ki \in {<<"ka", "k1">>, <<"ka", "k2">>, <<"kp", "k1">>, <<"ki", "k1">>},
                        to \in {"m", "a", "e", NoWallet},
                        amt \in {0, 1, StartBalance + 1}, cur \in {"USD", "EUR"} :
                        StartTransfer("t1", ki[1], ki[2], to, amt, cur)
               \/ Ready("t1") /\ \E w \in {"a", "m"}, freeze \in BOOLEAN : FreezeWallet(w, freeze)
               \/ LockStep("t1") \/ TransferStep("t1")
       ]_vars

\* ---- pay calls on an intent around its expiry
SpecIntentExpire ==
    /\ InitSeed
    /\ [][
            /\ UNCHANGED <<scopes, buckets, listing, retry, ledger_accounts, creating>>
            /\ \/ Len(intents) < 1 /\ \E amt \in Amounts : CreateIntent("km", amt)
               \/ \E t \in Handlers, idem \in {"k1", "k2"} :
                     Room(MaxJournal) /\ StartPay(t, "ka", idem, 1)
               \/ \E t \in Handlers : LockStep(t) \/ PayStep(t)
               \/ ExpireIntent(1)
       ]_vars

\* ---- concurrent captures and releases of a hold around its expiry
SpecRecover ==
    /\ InitSeed
    /\ [][
            /\ UNCHANGED <<scopes, buckets, listing, retry, ledger_accounts, creating>>
            /\ \/ \E t \in Handlers :
                     /\ Room(MaxJournal)
                     /\ \/ Len(holds) = 0 /\ StartHold(t, "ka", "k3", MaxAmount)
                        \/ \E amt \in OptAmounts :
                              \/ StartCapture(t, "ka", IdemOf(t), 1, "m", amt)
                              \/ StartRelease(t, "ka", IdemOf(t), 1, amt)
               \/ \E t \in Handlers :
                     LockStep(t) \/ HoldStep(t) \/ CaptureStep(t) \/ ReleaseStep(t)
               \/ ExpireHold(1)
       ]_vars

\* ---- calls of get_or_create_ledger_accounts for a wallet whose rows are
\* missing, inside concurrent transactions
\* ledger.py get_or_create_ledger_accounts: the SELECT of the wallet's rows
GetOrCreateSelect(t, w) ==
    /\ creating[t].pc \in {"idle", "done"}
    /\ creating' = [creating EXCEPT ![t] =
           [NoCreating EXCEPT !.pc = "flush", !.wallet = w,
               !.existing = {ledger_accounts[i][2] : i \in
                                {j \in 1..Len(ledger_accounts) : ledger_accounts[j][1] = w}}]]
    /\ UNCHANGED <<wstatus, journal, holds, captures, refunds, intents, locks, tx, log,
                   scopes, buckets, listing, retry, ledger_accounts>>

\* ledger.py get_or_create_ledger_accounts: db.add of the missing kinds and
\* db.flush(). The INSERT waits while another transaction holds an
\* uncommitted row with the same (wallet_id, kind), and fails on
\* uq_ledger_account_wallet_kind when a committed one exists
GetOrCreateFlush(t) ==
    /\ creating[t].pc = "flush"
    /\ LET w == creating[t].wallet
           missing == Kinds \ creating[t].existing
           committed == {ledger_accounts[i][2] : i \in
                            {j \in 1..Len(ledger_accounts) : ledger_accounts[j][1] = w}}
       IN  /\ \A u \in Txs \ {t} :
                 creating[u].pc = "commit" /\ creating[u].wallet = w
                    => creating[u].added \cap missing = {}
           /\ creating' = [creating EXCEPT ![t] =
                  IF missing \cap committed # {}
                  THEN [@ EXCEPT !.pc = "done", !.res = "IntegrityError"]
                  ELSE [@ EXCEPT !.pc = "commit", !.added = missing]]
    /\ UNCHANGED <<wstatus, journal, holds, captures, refunds, intents, locks, tx, log,
                   scopes, buckets, listing, retry, ledger_accounts>>

\* the db.commit() of the service function that called
\* get_or_create_ledger_accounts
CommitCreating(t) ==
    /\ creating[t].pc = "commit"
    /\ ledger_accounts' =
          ledger_accounts
          \o (IF "available" \in creating[t].added
              THEN << <<creating[t].wallet, "available">> >> ELSE <<>>)
          \o (IF "held" \in creating[t].added
              THEN << <<creating[t].wallet, "held">> >> ELSE <<>>)
    /\ creating' = [creating EXCEPT ![t].pc = "done", ![t].res = "OK"]
    /\ UNCHANGED <<wstatus, journal, holds, captures, refunds, intents, locks, tx, log,
                   scopes, buckets, listing, retry>>

\* the wallets "m" and "e" start without ledger accounts
SpecAccounts ==
    /\ InitTables(SubSeq(SeedAccounts, 1, 4))
    /\ [][\E t \in Txs :
            \/ \E w \in {"a", "m", "e"} : GetOrCreateSelect(t, w)
            \/ GetOrCreateFlush(t)
            \/ CommitCreating(t)
       ]_vars

\* ---- SDK calls under the retry helpers
MaxRetries == 2

\* the other tables stay as they are while the SDK runs
ServiceIdle ==
    UNCHANGED <<wstatus, journal, holds, captures, refunds, intents, locks, tx, log,
                scopes, buckets, listing, ledger_accounts, creating>>

\* a decorated function, or RetryableClient._execute_with_retry, is called
StartRetry(impl, max_retries) ==
    /\ retry.pc = "idle"
    /\ retry' = [NoRetry EXCEPT !.pc = "loop", !.impl = impl, !.max_retries = max_retries]
    /\ ServiceIdle

\* after the loop: raise last_exception, or RuntimeError when there is none
Exhausted ==
    [retry EXCEPT !.pc = "done",
                  !.result = IF retry.last_exception.cls # "None"
                             THEN retry.last_exception
                             ELSE Outcome("RuntimeError", 0)]

\* a caught retryable exception: remembered, slept on unless it was the last
\* attempt, then the next iteration
Continue(o) ==
    [retry EXCEPT !.calls = Append(@, o), !.last_exception = o,
                  !.sleeps = IF retry.attempt < retry.max_retries THEN @ + 1 ELSE @,
                  !.attempt = @ + 1]

\* the function returned, or raised what is not caught: the helper ends with it
Finish(o) == [retry EXCEPT !.pc = "done", !.calls = Append(@, o), !.result = o]

\* retry.py with_retry wrapper: one iteration of for attempt in range(max_retries + 1)
WithRetry(o) ==
    /\ retry.pc = "loop" /\ retry.impl = "with_retry"
    /\ retry' =
         IF retry.attempt >= retry.max_retries + 1 THEN Exhausted
         ELSE IF o.cls \in RETRYABLE_EXCEPTIONS THEN Continue(o)
         ELSE IF o.cls = "HTTPStatusError" /\ o.status \in RETRYABLE_STATUS_CODES
              THEN Continue(o)
         ELSE Finish(o)
    /\ ServiceIdle

\* retry.py RetryableClient._should_retry, retrying on every status error
ShouldRetryAnyStatus(exception) ==
    \/ exception.cls \in RETRYABLE_EXCEPTIONS
    \/ exception.cls = "HTTPStatusError"

\* retry.py RetryableClient._should_retry
ShouldRetry(exception) ==
    \/ exception.cls \in RETRYABLE_EXCEPTIONS
    \/ exception.cls = "HTTPStatusError" /\ exception.status \in RETRYABLE_STATUS_CODES

\* retry.py RetryableClient._execute_with_retry: one iteration of its loop
ExecuteWithRetry(o) ==
    /\ retry.pc = "loop" /\ retry.impl = "RetryableClient"
    /\ retry' =
         IF retry.attempt >= retry.max_retries + 1 THEN Exhausted
         ELSE IF o.cls = "return" THEN Finish(o)
         ELSE IF ShouldRetry(o) THEN Continue(o)
         ELSE Finish(o)
    /\ ServiceIdle

\* the wrapped function ends every time it is called, and so does time.sleep
SpecRetry ==
    /\ InitSeed
    /\ [][
            \/ \E impl \in {"with_retry", "RetryableClient"}, n \in -1..MaxRetries :
                  StartRetry(impl, n)
            \* one iteration, over everything the wrapped function may do
            \/ \E o \in {Outcome("return", 0)}
                        \cup {Outcome(c, 0) : c \in RETRYABLE_EXCEPTIONS \cup {"ReadError", "ValueError"}}
                        \cup {Outcome("HTTPStatusError", st) : st \in {400, 500, 502, 503, 504}} :
                   WithRetry(o) \/ ExecuteWithRetry(o)
       ]_vars
    /\ WF_vars(\E o \in {Outcome("return", 0)}
                        \cup {Outcome(c, 0) : c \in RETRYABLE_EXCEPTIONS \cup {"ReadError", "ValueError"}}
                        \cup {Outcome("HTTPStatusError", st) : st \in {400, 500, 502, 503, 504}} :
                   WithRetry(o) \/ ExecuteWithRetry(o))

\* ------------------------------------------------------------------ claims
RECURSIVE SumLog(_, _, _)
SumLog(l, ops, w) ==
    IF l = <<>> THEN 0
    ELSE (IF Head(l).op \in ops /\ KeyWallet(Head(l).key) = w THEN Head(l).amount ELSE 0)
         + SumLog(Tail(l), ops, w)

\* C1: the transfers and hold creations that commit against the funded wallet
\* sum to at most its starting available balance, and its available balance
\* is the starting balance minus that sum, in every interleaving.
C1_NoDoubleSpend ==
    LET spent == SumLog(log, {"transfer", "hold"}, "a")
    IN  /\ spent <= StartBalance
        /\ Available("a") = StartBalance - spent
        /\ Available("a") >= 0

\* two calls that the balance cannot both cover race for the account's lock
C1_Witness ==
    \E t \in Txs, u \in Txs :
        /\ t # u
        /\ tx[t].pc \in {"balance", "post"}
        /\ tx[u].pc = "lock" /\ tx[u].need # <<>>
        /\ locks[Head(tx[u].need)] = t
        /\ tx[t].amt <= Available("a") /\ tx[u].amt <= Available("a")
        /\ tx[t].amt + tx[u].amt > Available("a")

\* C2: every posted journal entry has at least two lines, equal debit and
\* credit sums, strictly positive amounts and one currency on all lines.
C2_EntriesWellFormed ==
    \A i \in 1..Len(journal) :
        LET ls == journal[i].lines
        IN  /\ Len(ls) >= 2
            /\ SumLines(ls, Accounts, "debit") = SumLines(ls, Accounts, "credit")
            /\ \A n \in 1..Len(ls) : ls[n].amount > 0
            /\ \A n \in 1..Len(ls), o \in 1..Len(ls) : ls[n].cur = ls[o].cur

\* C3 as stated: the available balance of every wallet is never negative.
C3_AllWalletsNonNegative == \A w \in Wallets : Available(w) >= 0

\* C3 amended: the available balance of every wallet other than the system
\* wallet (the source that deposits debit) is never negative.
C3_NonSystemNonNegative == \A w \in Wallets \ {SystemWallet} : Available(w) >= 0

\* a debit the balance could not cover was refused after money had moved
C3_Witness ==
    /\ \E t \in Txs : tx[t].pc = "done" /\ tx[t].res.code = "INSUFFICIENT_FUNDS"
    /\ Available(SystemWallet) < 0
    /\ Len(journal) >= 2

\* C4: at most one committed journal entry per (idempotency_key, api key).
C4_OneEntryPerKey ==
    \A i \in 1..Len(journal), j \in 1..Len(journal) :
        (journal[i].key = journal[j].key /\ journal[i].creator = journal[j].creator)
            => i = j

\* a posting under a key that already has an entry was stopped by the constraint
C4_Witness ==
    \E t \in Txs :
        /\ tx[t].pc = "done" /\ ~tx[t].replayed
        /\ tx[t].res.code = "INTERNAL_ERROR"
        /\ CheckIdempotency(tx[t].idem, tx[t].key) # {}

\* C5: a transfer or hold creation repeated under the key of a committed call
\* of the same operation returns that call's id and journal_entry_id, posts
\* nothing and changes no balance and no hold.
C5_ReplaySameResult ==
    [][\A t \in Txs : \A i \in 1..Len(log) :
          ( /\ tx[t].pc = "probe" /\ tx[t].op \in {"transfer", "hold"}
            /\ log[i].op = tx[t].op /\ log[i].key = tx[t].key /\ log[i].idem = tx[t].idem
            /\ tx'[t] # tx[t] )
          => ( /\ tx'[t].pc = "done" /\ tx'[t].res.code = "OK"
               /\ tx'[t].res.id = log[i].id /\ tx'[t].res.entry = log[i].entry
               /\ journal' = journal /\ holds' = holds /\ captures' = captures
               /\ refunds' = refunds /\ intents' = intents )]_vars

\* a hold creation and a transfer have each been answered from the committed rows
C5_Witness ==
    \E t \in Txs : \E i \in 1..Len(log) :
        /\ tx[t].pc = "done" /\ tx[t].replayed /\ tx[t].op \in {"transfer", "hold"}
        /\ log[i].op = tx[t].op /\ log[i].key = tx[t].key /\ log[i].idem = tx[t].idem
        /\ tx[t].res.id = log[i].id

\* sum of the amount column over the rows of a table selected by index
RECURSIVE SumOver(_, _)
SumOver(rows, idx) ==
    IF idx = {} THEN 0
    ELSE LET i == CHOOSE x \in idx : TRUE
         IN  rows[i].amount + SumOver(rows, idx \ {i})

\* committed captures, releases and refunds of one hold or capture
CapturedOf(h) == SumOver(captures, {c \in 1..Len(captures) : captures[c].hold = h})
ReleasedOf(h) ==
    SumOver(log, {i \in 1..Len(log) : log[i].op = "release" /\ log[i].obj = h})

\* C6: for every hold, in every reachable state, 0 <= remaining_amount <=
\* amount, whatever captures and releases ran against it, concurrently or not.
C6_RemainingInRange ==
    \A h \in 1..Len(holds) :
        0 <= holds[h].remaining /\ holds[h].remaining <= holds[h].amount

\* two operations under different keys have committed against one hold from
\* the same read of its row: together they moved more than the hold's amount
C6_Witness ==
    \E h \in 1..Len(holds) : \E i \in 1..Len(log), j \in 1..Len(log) :
        /\ i # j /\ log[i].idem # log[j].idem
        /\ log[i].obj = h /\ log[j].obj = h
        /\ log[i].op \in {"capture", "release"} /\ log[j].op \in {"capture", "release"}
        /\ CapturedOf(h) + ReleasedOf(h) > holds[h].amount

\* C7: for every hold that is no longer active, the amounts of its committed
\* captures plus the amounts of its committed releases equal its amount.
C7_SettledHoldSumsToAmount ==
    \A h \in 1..Len(holds) :
        holds[h].status # "active" =>
            CapturedOf(h) + ReleasedOf(h) = holds[h].amount

\* C8: a hold is active exactly when remaining_amount > 0; it leaves active
\* exactly when an operation brings remaining_amount to 0, to captured by a
\* capture and to released by a release; its status never changes afterwards.
C8_StatusTracksRemaining ==
    /\ [](\A h \in 1..Len(holds) :
            (holds[h].status = "active") <=> (holds[h].remaining > 0))
    /\ [][\A h \in 1..Len(holds) :
            /\ holds[h].status # "active" => holds'[h].status = holds[h].status
            /\ (holds[h].status = "active" /\ holds'[h].remaining = 0)
                   => holds'[h].status # "active"
            /\ (holds[h].status = "active" /\ holds'[h].status # "active") =>
                   /\ holds'[h].remaining = 0
                   /\ \E t \in Txs :
                         /\ tx[t].pc = "post" /\ tx'[t].pc = "done" /\ tx[t].obj = h
                         /\ \/ tx[t].op = "capture" /\ holds'[h].status = "captured"
                            \/ tx[t].op = "release" /\ holds'[h].status = "released"]_vars

\* C9: for every capture, 0 <= refunded_amount <= amount and refunded_amount
\* is the sum of the amounts of the refunds created against it, also when
\* refunds under different keys run concurrently.
C9_RefundedMatchesRefunds ==
    \A c \in 1..Len(captures) :
        /\ 0 <= captures[c].refunded
        /\ captures[c].refunded <= captures[c].amount
        /\ captures[c].refunded =
            SumOver(refunds, {r \in 1..Len(refunds) : refunds[r].capture = c})

\* C10: at most one transfer entry references a payment intent, so the
\* merchant is credited its amount at most once; a pay call that reaches the
\* intent after it is paid fails with PAYMENT_INTENT_NOT_PAYABLE.
C10_IntentPaidOnce ==
    /\ [](\A i \in 1..Len(intents) :
            /\ Cardinality({e \in 1..Len(journal) :
                   journal[e].type = "transfer" /\ journal[e].ref = i}) <= 1
            /\ Available(intents[i].merchant) <= intents[i].amount)
    /\ [][\A t \in Txs :
            ( /\ tx[t].pc = "check" /\ tx[t].op = "pay"
              /\ tx[t].obj \in 1..Len(intents)
              /\ intents[tx[t].obj].status = "paid"
              /\ tx'[t] # tx[t] )
            => tx'[t].res.code = "PAYMENT_INTENT_NOT_PAYABLE"]_vars

\* C11: a mutating call under an (idempotency_key, api key) that already has a
\* committed entry of another operation's type fails with
\* IDEMPOTENCY_CONFLICT and posts nothing.
C11_ConflictOnOtherType ==
    [][LET EntryTypeOf(op) ==
               CASE op = "deposit" -> "deposit_external"
                 [] op = "pay" -> "transfer"
                 [] OTHER -> op
       IN
       \A t \in Txs :
          ( /\ tx[t].pc = "probe" /\ tx'[t] # tx[t]
            /\ \E e \in CheckIdempotency(tx[t].idem, tx[t].key) :
                   journal[e].type # EntryTypeOf(tx[t].op) )
          => ( /\ tx'[t].pc = "done"
               /\ tx'[t].res.code = "IDEMPOTENCY_CONFLICT"
               /\ journal' = journal )]_vars

\* C12: when two requests for one operation under one (idempotency_key, api
\* key) both pass the probe before either commits, exactly one entry is
\* committed and the call that did not commit it still answers with the
\* committed call's successful result and identifiers.
C12_RaceLoserGetsResult ==
    [][\A t \in Txs : \A i \in 1..Len(log) :
          ( /\ tx[t].pc \in {"check", "lock", "balance", "post"} /\ tx'[t].pc = "done"
            /\ tx[t].op \in {"transfer", "hold"}
            /\ log[i].op = tx[t].op /\ log[i].key = tx[t].key /\ log[i].idem = tx[t].idem )
          => ( /\ journal' = journal
               /\ Cardinality(CheckIdempotency(tx[t].idem, tx[t].key)) = 1
               /\ tx'[t].res.code = "OK"
               /\ tx'[t].res.id = log[i].id /\ tx'[t].res.entry = log[i].entry )]_vars

\* sum of available and held balances over all wallets
TotalBalance == SumEntries(journal, Accounts, "credit") - SumEntries(journal, Accounts, "debit")

DepositEntries == SelectSeq(journal, LAMBDA e : e.type = "deposit_external")

\* C13: the available and held balances of all wallets sum to the credit
\* lines of the deposit entries minus their debit lines on the system wallet,
\* and every posting other than a deposit leaves the sum unchanged.
C13_Conservation ==
    /\ [](TotalBalance =
            SumEntries(DepositEntries, Accounts, "credit")
            - SumEntries(DepositEntries, {SystemWallet} \X Kinds, "debit"))
    /\ [][(Len(journal') = Len(journal) + 1
            /\ journal'[Len(journal')].type # "deposit_external")
          => TotalBalance' = TotalBalance]_vars

\* a deposit has been made and its money has moved on through a capture
C13_Witness ==
    /\ \E e \in 1..Len(journal) : journal[e].type = "deposit_external"
    /\ \E e \in 1..Len(journal) : journal[e].type = "capture"
    /\ Available("m") > 0 /\ Available(SystemWallet) < 0

\* C14: hold X <= B, capture c with 0 < c < X to the merchant, release with no
\* amount: the release is of X - c, the hold ends released with nothing
\* remaining, the payer has B - c available and nothing held, and the
\* merchant has c more.
C14_CaptureThenReleaseRest ==
    ( /\ Len(log) = 3
      /\ log[1].op = "hold"
      /\ log[2].op = "capture" /\ log[2].obj = log[1].id /\ log[2].amount < log[1].amount
      /\ log[3].op = "release" /\ log[3].obj = log[1].id /\ log[3].req = None )
    => ( /\ log[3].amount = log[1].amount - log[2].amount
         /\ holds[log[1].id].remaining = 0
         /\ holds[log[1].id].status = "released"
         /\ Available("a") = StartBalance - log[2].amount
         /\ Held("a") = 0
         /\ Available("m") = log[2].amount )

\* the three calls have committed in that order
C14_Witness ==
    /\ Len(log) = 3
    /\ log[1].op = "hold" /\ log[1].amount <= StartBalance
    /\ log[2].op = "capture" /\ log[2].amount < log[1].amount
    /\ log[3].op = "release" /\ log[3].req = None /\ log[3].amount > 0

\* C15: a hold for X followed by the release of that hold in full puts the
\* wallet's available and held balances back to their values before the hold.
C15_HoldReleaseRestores ==
    ( /\ Len(log) = 2
      /\ log[1].op = "hold"
      /\ log[2].op = "release" /\ log[2].obj = log[1].id
      /\ log[2].amount = log[1].amount )
    => ( /\ Available("a") = StartBalance
         /\ Held("a") = 0
         /\ \A w \in Wallets \ {"a", SystemWallet} : Available(w) = 0 /\ Held(w) = 0 )

\* a hold of the largest amount has been released in full
C15_Witness ==
    /\ Len(log) = 2
    /\ log[1].op = "hold" /\ log[1].amount = MaxAmount
    /\ log[2].op = "release" /\ log[2].amount = MaxAmount
    /\ holds[1].status = "released"

\* C16: a hold for X on the payer, the capture of X to the merchant and the
\* refund of X against that capture put the available and held balances of
\* both wallets back to their values before the hold.
C16_HoldCaptureRefundRestores ==
    ( /\ Len(log) = 3
      /\ log[1].op = "hold"
      /\ log[2].op = "capture" /\ log[2].obj = log[1].id /\ log[2].amount = log[1].amount
      /\ log[3].op = "refund" /\ log[3].obj = log[2].id /\ log[3].amount = log[1].amount )
    => ( /\ Available("a") = StartBalance /\ Held("a") = 0
         /\ Available("m") = 0 /\ Held("m") = 0 )

\* a hold of the largest amount has been captured and refunded in full
C16_Witness ==
    /\ Len(log) = 3
    /\ log[1].op = "hold" /\ log[1].amount = MaxAmount
    /\ log[2].op = "capture" /\ log[2].amount = MaxAmount
    /\ log[3].op = "refund" /\ log[3].amount = MaxAmount
    /\ captures[1].refunded = MaxAmount

\* C17: a capture call that reaches the checks on an active hold whose
\* expires_at has passed fails with HOLD_EXPIRED and changes nothing: no
\* journal entry, no capture row, the hold as it was.
C17_ExpiredHoldNotCaptured ==
    [][\A t \in Txs :
          ( /\ tx[t].pc = "check" /\ tx[t].op = "capture" /\ tx'[t] # tx[t]
            /\ tx[t].obj \in 1..Len(holds)
            /\ holds[tx[t].obj].status = "active" /\ holds[tx[t].obj].expired )
          => ( /\ tx'[t].pc = "done" /\ tx'[t].res.code = "HOLD_EXPIRED"
               /\ journal' = journal /\ captures' = captures /\ holds' = holds )]_vars

\* a capture of a partly captured hold has been refused after its expiry
C17_Witness ==
    \E t \in Txs :
        /\ tx[t].pc = "done" /\ tx[t].op = "capture" /\ tx[t].res.code = "HOLD_EXPIRED"
        /\ holds[1].status = "active" /\ holds[1].expired /\ holds[1].remaining > 0
        /\ Len(captures) = 1

\* the amount a call in its checks is about to move
Principal(t) ==
    CASE tx[t].op \in {"transfer", "hold"} -> tx[t].amt
      [] tx[t].op = "capture" ->
            IF tx[t].obj \notin 1..Len(holds) THEN 0
            ELSE IF tx[t].amt = None THEN holds[tx[t].obj].remaining ELSE tx[t].amt
      [] tx[t].op = "refund" ->
            IF tx[t].obj \notin 1..Len(captures) THEN 0
            ELSE IF tx[t].amt = None THEN Refundable(captures[tx[t].obj]) ELSE tx[t].amt
      [] tx[t].op = "pay" ->
            IF tx[t].obj \notin 1..Len(intents) THEN 0 ELSE intents[tx[t].obj].amount
      [] OTHER -> 0

\* C18: under a key with per_tx_max, a transfer, hold creation, capture,
\* intent payment or refund of more than per_tx_max fails and posts nothing
\* (LIMIT_EXCEEDED), and an amount within the cap is not rejected by it.
C18_PerTxCap ==
    /\ [](\A i \in 1..Len(log) :
            (log[i].op \in {"transfer", "hold", "capture", "pay", "refund"} /\ PerTxMax(log[i].key) # None)
                => log[i].amount <= PerTxMax(log[i].key))
    /\ [][\A t \in Txs :
            ( /\ tx[t].pc = "check" /\ tx[t].op \in {"transfer", "hold", "capture", "pay", "refund"} /\ tx'[t] # tx[t]
              /\ PerTxMax(tx[t].key) # None )
            => ( /\ Principal(t) > PerTxMax(tx[t].key)
                    => (tx'[t].pc = "done" /\ tx'[t].res.code # "OK")
                 /\ tx'[t].res.code = "LIMIT_EXCEEDED"
                    => Principal(t) > PerTxMax(tx[t].key) )]_vars

\* C19: under a key with daily_max, the debits that committed operations post
\* on the key wallet's available account within the day never exceed
\* daily_max, in any interleaving of concurrent transfers and holds.
C19_DailyCap ==
    \A k \in Keys : DailyMax(k) # None => TodaySpent(k) <= DailyMax(k)

\* C20: under a key with allowed_counterparties, a transfer, capture or
\* intent payment is rejected with COUNTERPARTY_NOT_ALLOWED, posting nothing,
\* exactly when neither the recipient's wallet id nor its handle is in the
\* list, whichever of the three operations it is.
C20_AllowlistDecision ==
    [][LET Counterparty(t) ==
               IF tx[t].op = "pay"
               THEN (IF tx[t].obj \in 1..Len(intents)
                     THEN intents[tx[t].obj].merchant ELSE NoWallet)
               ELSE tx[t].to
           InAllowlist(k, w) == w \in AllowedIds(k) \/ Handle(w) \in AllowedHandles(k)
       IN
       \A t \in Txs :
          ( /\ tx[t].pc = "check" /\ tx[t].op \in {"transfer", "capture", "pay"}
            /\ tx'[t] # tx[t] /\ HasAllowlist(tx[t].key)
            /\ Counterparty(t) # NoWallet )
          => ( /\ tx'[t].res.code = "COUNTERPARTY_NOT_ALLOWED"
                  => ~InAllowlist(tx[t].key, Counterparty(t))
               /\ ~InAllowlist(tx[t].key, Counterparty(t))
                  => (tx'[t].pc = "done" /\ tx'[t].res.code # "OK") )]_vars

\* C21: a request passes the scope gate exactly when the key's scopes hold the
\* required scope or a ":*" wildcard whose text before the "*" is a prefix of
\* it; a request that lacks the scope ends with FORBIDDEN_SCOPE, and the step
\* that refuses it changes no ledger table
C21_ScopeGate ==
    /\ [](LET Grants(held, required) ==
                  \/ required \in held
                  \/ \E s \in held :
                        /\ Len(s) >= 2 /\ s[Len(s)] = "*" /\ s[Len(s) - 1] = ":"
                        /\ Len(required) >= Len(s) - 1
                        /\ \A i \in 1..(Len(s) - 1) : required[i] = s[i]
           IN
           \A t \in Txs :
            tx[t].scope # <<>> =>
               /\ HasScope(scopes[tx[t].key], tx[t].scope)
                     <=> Grants(scopes[tx[t].key], tx[t].scope)
               /\ tx[t].res.code = "FORBIDDEN_SCOPE"
                     <=> ~Grants(scopes[tx[t].key], tx[t].scope)
               /\ tx[t].res.code = "FORBIDDEN_SCOPE" => tx[t].pc = "done")
    /\ [][\A t \in Txs :
            (tx'[t] # tx[t] /\ tx'[t].res.code = "FORBIDDEN_SCOPE") =>
               /\ Ready(t)
               /\ UNCHANGED <<wstatus, journal, holds, captures, refunds, intents,
                              locks, log>>]_vars

\* a key holding "a:*" is refused the scope "ab", after the same key posted a
\* transfer through an endpoint whose scope it holds
C21_Witness ==
    /\ tx["t1"].res.code = "FORBIDDEN_SCOPE"
    /\ tx["t1"].scope = Administration
    /\ AdminAll \in scopes["ka"]
    /\ \E i \in 1..Len(log) : log[i].key = "ka" /\ log[i].op = "transfer"

\* C22: every request that reaches its operation has drawn one token from its
\* key's bucket: the step that admits it replaces the bucket by the outcome of
\* a successful consume
C22_RequestDrawsToken ==
    [][\A t \in Txs :
          (Ready(t) /\ tx'[t].pc = "probe") =>
             \E now \in 0..1 :
                /\ Consume(buckets[tx'[t].key], now).ok
                /\ buckets'[tx'[t].key] = Consume(buckets[tx'[t].key], now).bucket]_vars

\* C23: no entry is committed that takes value out of a frozen wallet to
\* another wallet, or that credits a frozen wallet's available account from
\* another wallet
C23_FrozenWalletStill ==
    [][Len(journal') > Len(journal) =>
          LET e == journal'[Len(journal')]
              n == 1..Len(e.lines)
              debited == {e.lines[i].acct[1] : i \in {j \in n : e.lines[j].dir = "debit"}}
              credited == {e.lines[i].acct[1] :
                              i \in {j \in n : /\ e.lines[j].dir = "credit"
                                                /\ e.lines[j].acct[2] = "available"}}
          IN  \A w \in Wallets :
                 (wstatus[w] = "frozen" /\ {e.lines[i].acct[1] : i \in n} # {w}) =>
                    w \notin debited \cup credited]_vars

\* C24: a refund call whose key's wallet is not the capture's destination
\* wallet ends without a refund result, and its last step leaves the journal,
\* the capture and the refunds as they were
C24_StrangerGetsNoRefund ==
    [][\A t \in Txs :
          (/\ tx[t].op = "refund" /\ tx[t].pc \notin {"idle", "done"}
           /\ tx'[t].pc = "done"
           /\ tx[t].obj \in 1..Len(captures)
           /\ captures[tx[t].obj].to # KeyWallet(tx[t].key)) =>
             /\ tx'[t].res.code # "OK"
             /\ UNCHANGED <<journal, captures, refunds>>]_vars

\* C25: a call repeated under the idempotency key and API key of a committed
\* call of the same operation is answered with that call's response, field by
\* field: same id, same journal entry, same amount
C25_ReplayEqualsFirst ==
    [][\A t \in Txs : \A i \in 1..Len(log) :
          ( /\ tx[t].pc = "probe"
            /\ log[i].op = tx[t].op /\ log[i].key = tx[t].key /\ log[i].idem = tx[t].idem
            /\ tx'[t] # tx[t] )
          => ( /\ tx'[t].res.code = "OK"
               /\ tx'[t].res.id = log[i].id
               /\ tx'[t].res.entry = log[i].entry
               /\ tx'[t].res.amount = log[i].amount )]_vars

\* C26: a call that ends in an error or is cancelled leaves every committed
\* table as it was; a step commits at most one entry, always together with its
\* dependent row, and no dependent row changes in a step that commits no entry
C26_AllOrNothing ==
    [][LET DependentWritten(e, n) ==
               CASE e.type = "hold" ->
                      /\ Len(holds') = Len(holds) + 1
                      /\ SubSeq(holds', 1, Len(holds)) = holds
                      /\ holds'[Len(holds')].entry = n
                      /\ holds'[Len(holds')].remaining = e.lines[1].amount
                      /\ UNCHANGED <<captures, refunds, intents>>
                 [] e.type = "capture" ->
                      /\ Len(captures') = Len(captures) + 1
                      /\ SubSeq(captures', 1, Len(captures)) = captures
                      /\ captures'[Len(captures')].entry = n
                      /\ LET h == captures'[Len(captures')].hold
                         IN  holds' = [holds EXCEPT ![h].remaining = holds[h].remaining - e.lines[1].amount,
                                                    ![h].status = holds'[h].status]
                      /\ UNCHANGED <<refunds, intents>>
                 [] e.type = "release" ->
                      /\ \E h \in 1..Len(holds) :
                            holds' = [holds EXCEPT ![h].remaining = holds[h].remaining - e.lines[1].amount,
                                                   ![h].status = holds'[h].status]
                      /\ UNCHANGED <<captures, refunds, intents>>
                 [] e.type = "refund" ->
                      /\ Len(refunds') = Len(refunds) + 1
                      /\ SubSeq(refunds', 1, Len(refunds)) = refunds
                      /\ refunds'[Len(refunds')].entry = n
                      /\ captures' = [captures EXCEPT ![e.ref].refunded =
                                                          captures[e.ref].refunded + e.lines[1].amount]
                      /\ UNCHANGED <<holds, intents>>
                 [] e.type = "transfer" /\ e.ref # 0 ->
                      /\ intents' = [intents EXCEPT ![e.ref].status = "paid",
                                                    ![e.ref].payer = intents'[e.ref].payer,
                                                    ![e.ref].entry = n]
                      /\ UNCHANGED <<holds, captures, refunds>>
                 [] OTHER -> UNCHANGED <<holds, captures, refunds, intents>>
       IN
       /\ \A t \in Txs :
            (tx'[t] # tx[t] /\ tx'[t].pc = "done" /\ tx'[t].res.code # "OK") =>
               UNCHANGED <<wstatus, journal, holds, captures, refunds, intents>>
       /\ Len(journal') = Len(journal) =>
            /\ UNCHANGED <<journal, holds, captures, refunds>>
            /\ SubSeq(intents', 1, Len(intents)) = intents
       /\ Len(journal') # Len(journal) =>
            /\ Len(journal') = Len(journal) + 1
            /\ SubSeq(journal', 1, Len(journal)) = journal
            /\ DependentWritten(journal'[Len(journal')], Len(journal'))]_vars

\* a call has been cancelled after a capture and a refund were committed
C26_Witness ==
    /\ tx["t1"].res.code = "CANCELLED"
    /\ Len(captures) >= 1 /\ Len(refunds) >= 1

C29_OtherPayloadNotAccepted ==
    [][\A t \in Txs : \A i \in 1..Len(log) :
          ( /\ tx[t].pc = "probe" /\ tx[t].op \in {"transfer", "deposit", "pay"}
            /\ log[i].op = tx[t].op /\ log[i].key = tx[t].key /\ log[i].idem = tx[t].idem
            /\ (log[i].req # tx[t].req \/ log[i].obj # tx[t].obj)
            /\ tx'[t].pc = "done" )
          => tx'[t].res.code # "OK"]_vars

\* C30: a capture or release by the owner of an open hold, under an unused
\* idempotency key, that asks for more than the hold's remaining amount ends
\* with AMOUNT_EXCEEDS_HOLD, and such a refund by the merchant that asks for
\* more than the capture's refundable amount ends with
\* AMOUNT_EXCEEDS_REFUNDABLE; the call posts no entry and leaves the hold, the
\* capture and the refunds as they were
C30_ExcessRefused ==
    [][\A t \in Txs :
          /\ ( /\ tx[t].op \in {"capture", "release"}
               /\ tx[t].pc \in {"check", "lock", "post"} /\ tx'[t].pc = "done"
               /\ tx[t].obj \in 1..Len(holds)
               /\ holds[tx[t].obj].wallet = KeyWallet(tx[t].key)
               /\ holds[tx[t].obj].status = "active" /\ ~holds[tx[t].obj].expired
               /\ holds[tx[t].obj].remaining > 0
               /\ CheckIdempotency(tx[t].idem, tx[t].key) = {}
               /\ tx[t].req # None /\ tx[t].req > holds[tx[t].obj].remaining )
             => ( /\ tx'[t].res.code = "AMOUNT_EXCEEDS_HOLD"
                  /\ UNCHANGED <<journal, holds, captures>> )
          /\ ( /\ tx[t].op = "refund"
               /\ tx[t].pc \in {"check", "lock", "balance", "post"} /\ tx'[t].pc = "done"
               /\ tx[t].obj \in 1..Len(captures)
               /\ captures[tx[t].obj].to = KeyWallet(tx[t].key)
               /\ CheckIdempotency(tx[t].idem, tx[t].key) = {}
               /\ tx[t].req # None /\ tx[t].req > Refundable(captures[tx[t].obj]) )
             => ( /\ tx'[t].res.code = "AMOUNT_EXCEEDS_REFUNDABLE"
                  /\ UNCHANGED <<journal, captures, refunds>> )]_vars

\* C31: with_retry and RetryableClient._execute_with_retry end after at most
\* max_retries + 1 calls of the wrapped function: every call but the last
\* raised one of the five network exceptions or an HTTP status error 502, 503
\* or 504; a return ends the helper with that value; an error that is not
\* retryable is re-raised by the call that met it; a retryable error is
\* re-raised only as the last of exactly max_retries + 1 calls.
C31_RetryBounded ==
    LET Retryable(o) ==
            \/ o.cls \in {"ConnectError", "ConnectTimeout", "ReadTimeout",
                          "WriteTimeout", "PoolTimeout"}
            \/ o.cls = "HTTPStatusError" /\ o.status \in {502, 503, 504}
        n == Len(retry.calls)
    IN  /\ [](retry.pc # "idle" =>
                /\ n <= retry.max_retries + 1 \/ n = 0
                /\ \A i \in 1..(n - 1) : Retryable(retry.calls[i])
                /\ (retry.pc = "loop" /\ n > 0) => Retryable(retry.calls[n])
                /\ (retry.pc = "done" /\ n > 0) =>
                      /\ retry.result = retry.calls[n]
                      /\ Retryable(retry.calls[n]) => n = retry.max_retries + 1)
        /\ (retry.pc = "loop" ~> retry.pc = "done")

\* RetryableClient gave up on a 503 after three calls
C31_Witness ==
    /\ retry.pc = "done" /\ retry.impl = "RetryableClient"
    /\ retry.max_retries = 2 /\ Len(retry.calls) = 3
    /\ retry.result = Outcome("HTTPStatusError", 503)
    /\ retry.calls[1].cls = "ReadTimeout"

\* C32: the idempotency probe of a capture and of a refund matches only rows
\* created under the calling API key: a call that ends at the probe is a
\* replay of a capture or refund whose journal entry carries the caller's
\* key, and no other key's row answers or blocks the call.
C32_ProbeScopedToCreator ==
    [][\A t \in Txs :
          ( /\ tx[t].pc = "probe" /\ tx[t].op \in {"capture", "refund"}
            /\ tx'[t] # tx[t] /\ tx'[t].pc = "done" )
          => ( /\ tx'[t].replayed
               /\ journal[tx'[t].res.entry].creator = tx[t].key )]_vars

\* C33 as stated: a transfer call under a committed (idempotency key, api
\* key) makes no check before the probe: it reaches the probe whatever its
\* amount, and the probe answers it with the original result.
C33_ReplayBeforeAnyCheck ==
    [][\A t \in Txs :
          ( /\ Ready(t) /\ tx'[t] # tx[t] /\ tx'[t].op = "transfer"
            /\ CheckIdempotency(tx'[t].idem, tx'[t].key) # {} )
          => tx'[t].pc = "probe"]_vars

\* C33: a transfer rejects a non-positive amount with INVALID_AMOUNT, then
\* probes the idempotency key and answers a committed key with the original
\* entry whatever the wallets, limits and balance are; then the first failing
\* of recipient resolution, self-transfer, source wallet active, currency of
\* source and of recipient, per-transaction cap, daily cap and counterparty
\* allowlist alone gives the error code; INSUFFICIENT_FUNDS is decided only
\* under both account locks, and the entry is posted only after that.
C33_FirstFailureDecides ==
    [][LET From(t) == KeyWallet(tx[t].key)
           FirstFailure(t) ==
               IF tx[t].to \notin Wallets THEN "RECIPIENT_NOT_FOUND"
               ELSE IF wstatus[tx[t].to] = "frozen" THEN "WALLET_FROZEN"
               ELSE IF wstatus[tx[t].to] = "closed" THEN "WALLET_CLOSED"
               ELSE IF tx[t].to = From(t) THEN "SELF_TRANSFER"
               ELSE IF wstatus[From(t)] # "active" THEN "WALLET_NOT_ACTIVE"
               ELSE IF \/ WalletCurrency(From(t)) # tx[t].cur
                       \/ WalletCurrency(tx[t].to) # tx[t].cur THEN "CURRENCY_MISMATCH"
               ELSE IF PerTxMax(tx[t].key) # None /\ tx[t].amt > PerTxMax(tx[t].key)
                    THEN "LIMIT_EXCEEDED"
               ELSE IF /\ DailyMax(tx[t].key) # None
                       /\ TodaySpent(tx[t].key) + tx[t].amt > DailyMax(tx[t].key)
                    THEN "LIMIT_EXCEEDED"
               ELSE IF /\ HasAllowlist(tx[t].key)
                       /\ tx[t].to \notin AllowedIds(tx[t].key)
                       /\ Handle(tx[t].to) \notin AllowedHandles(tx[t].key)
                    THEN "COUNTERPARTY_NOT_ALLOWED"
               ELSE ""
       IN
       \A t \in Txs :
          /\ (Ready(t) /\ tx'[t] # tx[t] /\ tx'[t].op = "transfer") =>
                \/ tx'[t].pc = "done" /\ tx'[t].res.code = "INVALID_AMOUNT"
                \/ tx'[t].pc = "probe" /\ tx'[t].amt > 0
          /\ (tx[t].op = "transfer" /\ tx[t].pc = "probe" /\ tx'[t] # tx[t]) =>
                IF CheckIdempotency(tx[t].idem, tx[t].key) # {}
                THEN /\ tx'[t].pc = "done" /\ tx'[t].replayed
                     /\ tx'[t].res.code = "OK"
                     /\ tx'[t].res.entry \in CheckIdempotency(tx[t].idem, tx[t].key)
                ELSE tx'[t].pc = "check"
          /\ (tx[t].op = "transfer" /\ tx[t].pc = "check" /\ tx'[t] # tx[t]) =>
                IF FirstFailure(t) # ""
                THEN tx'[t].pc = "done" /\ tx'[t].res.code = FirstFailure(t)
                ELSE tx'[t].pc = "lock"
          /\ (tx[t].op = "transfer" /\ tx'[t] # tx[t]
              /\ tx'[t].res.code = "INSUFFICIENT_FUNDS") =>
                /\ tx[t].pc = "balance"
                /\ locks[<<From(t), "available">>] = t /\ locks[<<tx[t].to, "available">>] = t
                /\ Available(From(t)) < tx[t].amt
          /\ (tx[t].op = "transfer" /\ tx[t].pc = "balance" /\ tx'[t].pc = "post") =>
                Available(From(t)) >= tx[t].amt
          /\ (tx[t].op = "transfer" /\ Len(journal') > Len(journal)) =>
                tx[t].pc = "post"]_vars

\* a replay was answered with the original entry while the source wallet was
\* frozen and the destination closed to it
C33_Witness ==
    /\ tx["t1"].op = "transfer" /\ tx["t1"].replayed
    /\ tx["t1"].res.code = "OK" /\ tx["t1"].res.entry > 1
    /\ wstatus["a"] = "frozen" /\ wstatus["m"] = "frozen"

\* C34: a paid payment intent keeps its status, payer_wallet_id and
\* journal_entry_id in every later step, whatever pay calls run later or
\* concurrently, and an intent's status changes only from requires_payment.
C34_PaidIntentFrozen ==
    [][\A i \in 1..Len(intents) :
          /\ intents[i].status = "paid" =>
                /\ intents'[i].status = "paid"
                /\ intents'[i].payer = intents[i].payer
                /\ intents'[i].entry = intents[i].entry
          /\ intents'[i].status # intents[i].status =>
                intents[i].status = "requires_payment"]_vars

\* C35: a pay call that reads a requires_payment intent after its expires_at
\* ends with PAYMENT_INTENT_EXPIRED, posts nothing, and leaves the intent in
\* status expired.
C35_ExpiredIntentMarked ==
    [][\A t \in Txs :
          ( /\ tx[t].pc = "check" /\ tx[t].op = "pay" /\ tx'[t] # tx[t]
            /\ tx[t].obj \in 1..Len(intents)
            /\ intents[tx[t].obj].status = "requires_payment"
            /\ intents[tx[t].obj].expired )
          => ( /\ tx'[t].pc = "done"
               /\ tx'[t].res.code = "PAYMENT_INTENT_EXPIRED"
               /\ journal' = journal
               /\ intents'[tx[t].obj].status = "expired" )]_vars

\* C36: a release by the owning wallet's key of an amount in (0, remaining]
\* of a hold that is active with remaining > 0, expired or not, passes every
\* check of release_hold, and its posting under an unused idempotency key
\* succeeds, debits the held balance of the wallet by exactly that amount and
\* credits its available balance by the same.
C36_ReleaseRecoversFunds ==
    [][\A t \in Txs :
          /\ ( /\ tx[t].pc = "check" /\ tx[t].op = "release" /\ tx'[t] # tx[t]
               /\ tx[t].obj \in 1..Len(holds)
               /\ holds[tx[t].obj].wallet = KeyWallet(tx[t].key)
               /\ holds[tx[t].obj].status = "active"
               /\ holds[tx[t].obj].remaining > 0
               /\ \/ tx[t].amt = None
                  \/ tx[t].amt > 0 /\ tx[t].amt <= holds[tx[t].obj].remaining )
             => ( /\ tx'[t].pc = "lock"
                  /\ tx'[t].amt = IF tx[t].amt = None THEN holds[tx[t].obj].remaining
                                  ELSE tx[t].amt )
          /\ ( /\ tx[t].pc = "post" /\ tx[t].op = "release" /\ tx'[t] # tx[t]
               /\ CheckIdempotency(tx[t].idem, tx[t].key) = {} )
             => ( /\ tx'[t].pc = "done" /\ tx'[t].res.code = "OK"
                  /\ tx'[t].res.amount = tx[t].amt
                  /\ Available(KeyWallet(tx[t].key))' =
                        Available(KeyWallet(tx[t].key)) + tx[t].amt
                  /\ Held(KeyWallet(tx[t].key))' = Held(KeyWallet(tx[t].key)) - tx[t].amt )]_vars

\* the rest of an expired hold was released while a capture of it was refused
C36_Witness ==
    /\ tx["t1"].op = "release" /\ tx["t1"].res.code = "OK" /\ ~tx["t1"].replayed
    /\ tx["t2"].op = "capture" /\ tx["t2"].res.code = "HOLD_EXPIRED"
    /\ holds[1].expired /\ holds[1].status = "released"
    /\ Available("a") = StartBalance

\* C37: the journal is append-only: every step leaves each committed entry
\* (type, status, idempotency key, creator, reference and lines) as it was
\* and in its place, and every entry is in status posted.
C37_JournalAppendOnly ==
    /\ [](\A e \in 1..Len(journal) : journal[e].status = "posted")
    /\ [][/\ Len(journal') >= Len(journal)
          /\ SubSeq(journal', 1, Len(journal)) = journal]_vars

\* entries were committed, then a call was replayed and another refused
C37_Witness ==
    /\ Len(journal) >= 3
    /\ \E t \in Txs : tx[t].replayed
    /\ \E t \in Txs : tx[t].pc = "done" /\ tx[t].res.code \notin {"", "OK"}
    /\ \E e \in 1..Len(journal) : journal[e].type = "release"

C39_HeldIsSumOfRemaining ==
    LET RECURSIVE Remaining(_, _)
        Remaining(w, n) ==
            IF n = 0 THEN 0
            ELSE (IF holds[n].wallet = w THEN holds[n].remaining ELSE 0)
                 + Remaining(w, n - 1)
    IN  \A w \in Wallets :
           /\ Held(w) = Remaining(w, Len(holds))
           /\ Held(w) >= 0

\* C40: a capture under a key with daily_max that passes the checks before
\* enforce_limits is rejected with LIMIT_EXCEEDED, posting nothing, whenever
\* the debits posted today on the key wallet's available account (the hold's
\* own debit among them) plus the capture amount exceed daily_max; and the
\* entry a capture posts debits held accounts only.
C40_CaptureCountsAgainstDailyCap ==
    /\ [](\A n \in 1..Len(journal) :
            journal[n].type = "capture"
            => \A i \in 1..Len(journal[n].lines) :
                  journal[n].lines[i].dir = "debit"
                  => journal[n].lines[i].acct[2] = "held")
    /\ [][\A t \in Txs :
            ( /\ tx[t].pc = "check" /\ tx[t].op = "capture" /\ tx'[t] # tx[t]
              /\ DailyMax(tx[t].key) # None
              /\ PerTxMax(tx[t].key) = None
              /\ tx[t].obj \in 1..Len(holds)
              /\ LET hold == holds[tx[t].obj]
                     a == IF tx[t].amt = None THEN hold.remaining ELSE tx[t].amt
                 IN  /\ hold.wallet = KeyWallet(tx[t].key)
                     /\ CanCapture(hold)
                     /\ a > 0 /\ a <= hold.remaining
                     /\ RecipientError(tx[t].to) = ""
                     /\ WalletCurrency(tx[t].to) = WalletCurrency(hold.wallet)
                     /\ SumEntries(journal, {<<hold.wallet, "available">>}, "debit") + a
                          > DailyMax(tx[t].key) )
            => ( /\ tx'[t].pc = "done"
                 /\ tx'[t].res.code = "LIMIT_EXCEEDED"
                 /\ journal' = journal /\ holds' = holds /\ captures' = captures )]_vars

\* a capture of the whole remaining amount was rejected with LIMIT_EXCEEDED
\* while the only debit of the day on the available account is the hold's own
C40_Witness ==
    \E t \in Txs :
       /\ tx[t].pc = "done" /\ tx[t].op = "capture" /\ tx[t].key = "kd"
       /\ tx[t].res.code = "LIMIT_EXCEEDED"
       /\ Len(holds) = 1 /\ holds[1].status = "active"
       /\ holds[1].remaining = holds[1].amount
       /\ TodaySpent("kd") = holds[1].amount
       /\ holds[1].amount <= DailyMax("kd")
====
